---- MODULE Spec2Model ----
(***************************************************************************)
(* A model of the mo-re-server backend: the user-scoped entity store       *)
(* (customers, projects, tasks), the invoice-number allocator and the      *)
(* invoice computation.  Every "await db.query(...)" of a handler is one   *)
(* atomic step of the store; a handler is a process that moves from one    *)
(* query to the next, and handlers of different requests interleave        *)
(* between their queries.  The store enforces no foreign keys (the only    *)
(* schema that src/config/database.js executes is the SQLite one, without  *)
(* PRAGMA foreign_keys; the Postgres DDL is commented out).                *)
(***************************************************************************)
EXTENDS Integers, Sequences, FiniteSets, TLC

VARIABLES
    users,      \* users table: user id -> row
    customers,  \* customers table: set of rows
    projects,   \* projects table: set of rows
    tasks,      \* tasks table: set of rows
    nextId,     \* the SERIAL counters of the three tables
    reqs,       \* requests in flight: slot -> handler state
    lastResp,   \* the response sent last
    quota,      \* requests the server will still accept
    hist,       \* history: rows ever inserted, deletes that succeeded
    fn,         \* scratch of the pure-function specifications
    today       \* the server's calendar day

vars == <<users, customers, projects, tasks, nextId, reqs, lastResp, quota, hist, fn, today>>

-----------------------------------------------------------------------------
(* Bounds *)

\* longest invoice-number string drawn as an input of incrementPattern
MaxLen == 4
\* rows a table may ever hold (caps the SERIAL counters)
MaxRows == 4
\* requests accepted in one behaviour of concurrent handlers
MaxReqs == 2
\* requests accepted in one behaviour of handlers that run one after another
MaxSeqReqs == 4
\* requests accepted in one behaviour of previews and project updates
MaxDateReqs == 3
\* calendar days the server's clock runs through
MaxDay == 2
MaxProbeReqs == 3
MaxIbanLen == 3
MaxUsers == 3
MaxAuthReqs == 3

-----------------------------------------------------------------------------
(* Strings are sequences of one-character strings. *)

DigitSeq == <<"0", "1", "2", "3", "4", "5", "6", "7", "8", "9">>

DigitChars == {DigitSeq[i] : i \in 1..10}

\* what String.prototype.trim strips: white space and line terminators
WhiteSpace == {" ", "\n"}

\* what "." of a regular expression does not match
LineTerminators == {"\n"}

IsDigit(c) == c \in DigitChars

DigitVal(c) == CHOOSE v \in 0..9 : DigitSeq[v + 1] = c

\* parseInt(num, 10) of a string of digits
RECURSIVE ParseInt(_)
ParseInt(num) ==
    IF num = <<>> THEN 0
    ELSE 10 * ParseInt(SubSeq(num, 1, Len(num) - 1)) + DigitVal(num[Len(num)])

\* String(n) of a natural number
RECURSIVE NumToString(_)
NumToString(n) ==
    IF n < 10 THEN <<DigitSeq[n + 1]>>
    ELSE NumToString(n \div 10) \o <<DigitSeq[(n % 10) + 1]>>

\* s.padStart(width, '0')
RECURSIVE PadStart(_, _)
PadStart(s, width) ==
    IF Len(s) >= width THEN s ELSE PadStart(<<"0">> \o s, width)

\* current.trim() === ''
IsBlank(s) == \A i \in 1..Len(s) : s[i] \in WhiteSpace

\* The prefix lengths i at which /^(.*?)(\d+)([^\d]*)$/ can match: the
\* prefix holds no line terminator, a run of digits follows it, and only
\* non-digits follow the run up to the end of the string.
MatchStarts(s) ==
    {i \in 0..(Len(s) - 1) :
        /\ \A k \in 1..i : s[k] \notin LineTerminators
        /\ \E j \in (i + 1)..Len(s) :
              /\ \A k \in (i + 1)..j : IsDigit(s[k])
              /\ \A k \in (j + 1)..Len(s) : ~IsDigit(s[k])}

Min(S) == CHOOSE x \in S : \A y \in S : x <= y

Max(S) == CHOOSE x \in S : \A y \in S : y <= x

\* incrementPattern of the project-creation handler
incrementPattern(current) ==
    IF current = <<>> \/ IsBlank(current) THEN <<"0", "0", "0", "0", "1">>
    ELSE IF MatchStarts(current) = {} THEN current \o <<"-", "0", "0", "1">>
    ELSE LET i == Min(MatchStarts(current))   \* (.*?) is lazy
             j == Max({k \in (i + 1)..Len(current) :
                          \A m \in (i + 1)..k : IsDigit(current[m])})
             prefix == SubSeq(current, 1, i)
             num == SubSeq(current, i + 1, j)
             suffix == SubSeq(current, j + 1, Len(current))
             width == Len(num)
             nextNum == PadStart(NumToString(ParseInt(num) + 1), width)
         IN  prefix \o nextNum \o suffix

-----------------------------------------------------------------------------
(* The store *)

UserIds == {1, 2}

Slots == {1, 2}

Ids == 1..MaxRows

\* req.body.name: missing (""), or one of two names
Names == {"n1", "n2"}

EmptyRec == [none |-> TRUE]

\* '' as an invoice number
Empty == <<>>

\* '' or null as an invoice date
NoDate == ""

\* undefined, as the first row of an empty result
Undefined == [none |-> TRUE]

\* the invoice number of a user after one allocation from ''
Seed00001 == <<"0", "0", "0", "0", "1">>

\* the accounts that exist from the start: user 1 is the administrator, both
\* are active and hold a token of an earlier login
SeedAccounts == <<[email |-> "e1", password |-> "pw1"], [email |-> "e2", password |-> "pw2"]>>

\* bcrypt.hash(password, 12) and bcrypt.compare(password, hashedPassword)
hashPassword(password) == [bcrypt |-> password]
comparePassword(password, hashedPassword) == hashedPassword = [bcrypt |-> password]

Idle == [op |-> "idle", pc |-> "idle", uid |-> 0, cid |-> 0, pid |-> 0, tid |-> 0,
         body |-> EmptyRec, loc |-> EmptyRec, late |-> FALSE, foreign |-> FALSE,
         prior |-> <<>>]

NoResp == [op |-> "none", uid |-> 0, status |-> 0, rows |-> {}, data |-> EmptyRec,
           late |-> FALSE, foreign |-> FALSE, prior |-> <<>>,
           unowned |-> [level |-> "none", kind |-> "none"]]

CustomerRow(id, uid, name) == [id |-> id, userId |-> uid, name |-> name]

\* invoiceDate && invoiceDate.trim() !== '' ? invoiceDate : null
formattedInvoiceDate(invoiceDate) ==
    IF invoiceDate \in {"", " "} THEN NoDate ELSE invoiceDate

ProjectRow(id, cid, uid, b, invoiceNumber) ==
    [id |-> id, customerId |-> cid, userId |-> uid, name |-> b.name,
     invoiceNumber |-> invoiceNumber, invoiceDate |-> formattedInvoiceDate(b.invoiceDate),
     hourlyRate |-> b.hourlyRate, pricingType |-> b.pricingType,
     fixedPrice |-> b.fixedPrice]

\* INSERT INTO tasks: completed = 0, order_num takes the column default 0
TaskRow(id, pid, uid, b) ==
    [id |-> id, projectId |-> pid, userId |-> uid, name |-> b.name,
     estimatedHours |-> b.estimatedHours, completed |-> FALSE, orderNum |-> 0]

\* the defaults of the destructured project body
ProjectDefaults(name) ==
    [name |-> name, invoiceNumber |-> Empty, invoiceDate |-> NoDate,
     hourlyRate |-> 0, pricingType |-> "HOURLY", fixedPrice |-> 0]

\* the defaults of the destructured task body
TaskDefaults(name) == [name |-> name, estimatedHours |-> 1, completed |-> FALSE]

\* what a response or a history entry keeps of a row
Ref(kind, row) == [kind |-> kind, id |-> row.id, userId |-> row.userId]

\* a mutant of OwnedCustomers: the WHERE clause without "AND user_id = $2"
OwnedCustomers_NoUserFilter(cid, uid) == {c \in customers : c.id = cid}

\* SELECT id FROM customers WHERE id = $1 AND user_id = $2
OwnedCustomers(cid, uid) == {c \in customers : c.id = cid /\ c.userId = uid}

\* a mutant of OwnedProjects: the WHERE clause without "AND user_id = $3"
OwnedProjects_NoUserFilter(pid, cid, uid) ==
    {p \in projects : p.id = pid /\ p.customerId = cid}

\* SELECT id FROM projects WHERE id = $1 AND customer_id = $2 AND user_id = $3
OwnedProjects(pid, cid, uid) ==
    {p \in projects : p.id = pid /\ p.customerId = cid /\ p.userId = uid}

\* SELECT t.id FROM tasks t JOIN projects p ON t.project_id = p.id
\*   WHERE t.id = $1 AND t.project_id = $2 AND p.customer_id = $3
\*     AND t.user_id = $4 AND p.user_id = $5
OwnedTasks(tid, pid, cid, uid) ==
    {t \in tasks :
        /\ t.id = tid /\ t.projectId = pid /\ t.userId = uid
        /\ \E p \in projects : p.id = t.projectId /\ p.customerId = cid /\ p.userId = uid}

\* the rows a request names, by kind
Named(uid, cid, pid, tid) ==
    {[kind |-> "customer", id |-> cid, userId |-> uid],
     [kind |-> "project", id |-> pid, userId |-> uid],
     [kind |-> "task", id |-> tid, userId |-> uid]}

\* history: the request names a row of another user
NamesForeign(uid, cid, pid, tid) ==
    \/ \E c \in customers : c.id = cid /\ c.userId # uid
    \/ \E p \in projects : p.id = pid /\ p.userId # uid
    \/ \E t \in tasks : t.id = tid /\ t.userId # uid

\* history: whether the id names a row of the user, a row of another user or
\* no row at all (0: the path has no such id)
KindOf(rows, id, uid) ==
    IF id = 0 THEN "none"
    ELSE IF \E x \in rows : x.id = id /\ x.userId = uid THEN "own"
    ELSE IF \E x \in rows : x.id = id THEN "foreign"
    ELSE "absent"

\* history: the first id of the path that names no row of the user, and whether
\* it names a row of another user or none
Unowned(uid, cid, pid, tid) ==
    LET kc == KindOf(customers, cid, uid)
        kp == KindOf(projects, pid, uid)
        kt == KindOf(tasks, tid, uid)
    IN  IF kc \in {"foreign", "absent"} THEN [level |-> "customer", kind |-> kc]
        ELSE IF kp \in {"foreign", "absent"} THEN [level |-> "project", kind |-> kp]
        ELSE IF kt \in {"foreign", "absent"} THEN [level |-> "task", kind |-> kt]
        ELSE [level |-> "none", kind |-> "none"]

\* late: the request names a row that a delete of this user has removed;
\* prior: the user's running invoice number when the request arrives
Request(op, pc, uid, cid, pid, tid, body, loc) ==
    [op |-> op, pc |-> pc, uid |-> uid, cid |-> cid, pid |-> pid, tid |-> tid,
     body |-> body, loc |-> loc,
     late |-> (Named(uid, cid, pid, tid) \cap hist.gone # {}),
     foreign |-> NamesForeign(uid, cid, pid, tid),
     prior |-> IF uid \in DOMAIN users THEN users[uid].invoiceNumber ELSE <<>>]

Response(r, status, rows, data) ==
    [op |-> r.op, uid |-> r.uid, status |-> status, rows |-> rows, data |-> data,
     late |-> r.late, foreign |-> r.foreign, prior |-> r.prior,
     unowned |-> Unowned(r.uid, r.cid, r.pid, r.tid)]

\* a request is accepted into the first free slot
Accept(s) ==
    /\ reqs[s].op = "idle"
    /\ \A s2 \in Slots : s2 < s => reqs[s2].op # "idle"
    /\ quota > 0

\* the handler of slot s is suspended at pc of operation op
At(s, op, pc) == reqs[s].op = op /\ reqs[s].pc = pc

\* the handler moves on to its next query
Goto(s, r, pc) == reqs' = [reqs EXCEPT ![s] = [r EXCEPT !.pc = pc]]

\* res.status(status).json(...): the handler ends
Reply(s, r, status, rows, data) ==
    /\ reqs' = [reqs EXCEPT ![s] = Idle]
    /\ lastResp' = Response(r, status, rows, data)

\* Two users, each with one customer, one project created without an explicit
\* invoice number (so the allocator ran once from '') and one task.
InitStore ==
    /\ users = [u \in UserIds |->
                  [invoiceNumber |-> Seed00001, vatPercent |-> 0,
                   email |-> SeedAccounts[u].email,
                   password |-> hashPassword(SeedAccounts[u].password),
                   role |-> IF u = 1 THEN "admin" ELSE "user", active |-> 1]]
    /\ customers = {CustomerRow(u, u, "n1") : u \in UserIds}
    /\ projects = {ProjectRow(u, u, u, ProjectDefaults("n1"), Empty) : u \in UserIds}
    /\ tasks = {TaskRow(u, u, u, TaskDefaults("n1")) : u \in UserIds}
    /\ nextId = [customers |-> 3, projects |-> 3, tasks |-> 3, users |-> 3]
    /\ hist = [created |-> {[kind |-> "customer", id |-> u, parent |-> u, userId |-> u] : u \in UserIds}
                          \cup {[kind |-> "project", id |-> u, parent |-> u, userId |-> u] : u \in UserIds}
                          \cup {[kind |-> "task", id |-> u, parent |-> u, userId |-> u] : u \in UserIds},
               gone |-> {},
               auto |-> UserIds,
               given |-> {},
               dates |-> {},
               ranks |-> {},
               tokens |-> UserIds,
               registered |-> {},
               adminSet |-> {},
               manual |-> {}]

\* no request in flight, no response sent yet
InitServer(n) ==
    /\ reqs = [s \in Slots |-> Idle]
    /\ lastResp = NoResp
    /\ quota = n
    /\ fn = EmptyRec
    /\ today = 1

Init == InitStore /\ InitServer(MaxReqs)

\* the same store, for handlers that run one after another
InitSeq == InitStore /\ InitServer(MaxSeqReqs)


\* the handler is suspended at its next query
Suspend(s, r) ==
    /\ reqs' = [reqs EXCEPT ![s] = r]
    /\ quota' = quota - 1
    /\ UNCHANGED lastResp

\* the handler ends before it is ever suspended again
ReplyNow(r, status, rows, data) ==
    /\ lastResp' = Response(r, status, rows, data)
    /\ quota' = quota - 1
    /\ UNCHANGED reqs

Created(kind, id, parent, uid) ==
    [kind |-> kind, id |-> id, parent |-> parent, userId |-> uid]

-----------------------------------------------------------------------------
(* Customers: src/routes/auth.js, the customers router *)

\* router.post('/'): validation and the INSERT
CreateCustomer(s, uid, name) ==
    LET r == Request("createCustomer", "insert", uid, 0, 0, 0, [name |-> name], EmptyRec)
        id == nextId.customers
    IN  /\ Accept(s)
        /\ IF name = ""
           THEN /\ ReplyNow(r, 400, {}, EmptyRec)
                /\ UNCHANGED <<customers, nextId, hist>>
           ELSE /\ id <= MaxRows
                /\ customers' = customers \cup {CustomerRow(id, uid, name)}
                /\ nextId' = [nextId EXCEPT !.customers = id + 1]
                /\ hist' = [hist EXCEPT !.created = @ \cup {Created("customer", id, uid, uid)}]
                /\ ReplyNow(r, 200, {}, [id |-> id])
        /\ UNCHANGED <<users, projects, tasks, fn, today>>

\* router.put('/:customerId'): validation and the ownership check
UpdateCustomerCheck(s, uid, cid, name) ==
    LET r == Request("updateCustomer", "update", uid, cid, 0, 0, [name |-> name], EmptyRec)
    IN  /\ Accept(s)
        /\ IF name = "" THEN ReplyNow(r, 400, {}, EmptyRec)
           ELSE IF OwnedCustomers(cid, uid) = {} THEN ReplyNow(r, 404, {}, EmptyRec)
           ELSE Suspend(s, r)
        /\ UNCHANGED <<users, customers, projects, tasks, nextId, hist, fn, today>>

\* UPDATE customers SET ... WHERE id = $12 AND user_id = $13, then the reply
\* built from the request body
UpdateCustomerWrite(s) ==
    LET r == reqs[s]
        hit == {c \in customers : c.id = r.cid /\ c.userId = r.uid}
    IN  /\ At(s, "updateCustomer", "update")
        /\ customers' = (customers \ hit) \cup {[c EXCEPT !.name = r.body.name] : c \in hit}
        /\ Reply(s, r, 200, {}, [id |-> r.cid])
        /\ UNCHANGED <<users, projects, tasks, nextId, quota, hist, fn, today>>

\* history: the customer row, its projects and their tasks, as stored now
StoredUnderCustomer(cid, uid) ==
    LET ps == {p \in projects : p.customerId = cid}
        ts == {t \in tasks : t.projectId \in {p.id : p \in ps}}
    IN  {Ref("customer", c) : c \in OwnedCustomers(cid, uid)}
        \cup {Ref("project", p) : p \in ps} \cup {Ref("task", t) : t \in ts}

\* router.delete('/:customerId'): the ownership check
DeleteCustomerCheck(s, uid, cid) ==
    LET r == Request("deleteCustomer", "delTasks", uid, cid, 0, 0, EmptyRec,
                     [snap |-> StoredUnderCustomer(cid, uid)])
    IN  /\ Accept(s)
        /\ IF OwnedCustomers(cid, uid) = {} THEN ReplyNow(r, 404, {}, EmptyRec)
           ELSE Suspend(s, r)
        /\ UNCHANGED <<users, customers, projects, tasks, nextId, hist, fn, today>>

\* a mutant of DeleteCustomerTasks: the cascade starts at the customer row
DeleteCustomerTasks_CustomerFirst(s) ==
    LET r == reqs[s]
    IN  /\ At(s, "deleteCustomer", "delTasks")
        /\ customers' = {c \in customers : ~(c.id = r.cid /\ c.userId = r.uid)}
        /\ Goto(s, r, "delProjects")
        /\ UNCHANGED <<users, projects, tasks, nextId, lastResp, quota, hist, fn, today>>

\* DELETE FROM tasks WHERE project_id IN
\*   (SELECT id FROM projects WHERE customer_id = $1 AND user_id = $2)
DeleteCustomerTasks(s) ==
    LET r == reqs[s]
        pids == {p.id : p \in {q \in projects : q.customerId = r.cid /\ q.userId = r.uid}}
    IN  /\ At(s, "deleteCustomer", "delTasks")
        /\ tasks' = {t \in tasks : t.projectId \notin pids}
        /\ Goto(s, r, "delProjects")
        /\ UNCHANGED <<users, customers, projects, nextId, lastResp, quota, hist, fn, today>>

\* DELETE FROM projects WHERE customer_id = $1 AND user_id = $2
DeleteCustomerProjects(s) ==
    LET r == reqs[s]
    IN  /\ At(s, "deleteCustomer", "delProjects")
        /\ projects' = {p \in projects : ~(p.customerId = r.cid /\ p.userId = r.uid)}
        /\ Goto(s, r, "delCustomer")
        /\ UNCHANGED <<users, customers, tasks, nextId, lastResp, quota, hist, fn, today>>

\* the projects ever inserted under a customer, and the tasks under those
SubtreeOfCustomer(cid, uid) ==
    LET ps == {e \in hist.created : e.kind = "project" /\ e.parent = cid}
        ts == {e \in hist.created : e.kind = "task" /\ e.parent \in {e2.id : e2 \in ps}}
    IN  {[kind |-> "customer", id |-> cid, userId |-> uid]}
        \cup {[kind |-> e.kind, id |-> e.id, userId |-> uid] : e \in ps \cup ts}

\* DELETE FROM customers WHERE id = $1 AND user_id = $2, then the reply
DeleteCustomerRow(s) ==
    LET r == reqs[s]
    IN  /\ At(s, "deleteCustomer", "delCustomer")
        /\ customers' = {c \in customers : ~(c.id = r.cid /\ c.userId = r.uid)}
        /\ hist' = [hist EXCEPT !.gone = @ \cup SubtreeOfCustomer(r.cid, r.uid)]
        /\ Reply(s, r, 200, {}, EmptyRec)
        /\ UNCHANGED <<users, projects, tasks, nextId, quota, fn, today>>


\* router.get('/'): SELECT * FROM customers WHERE user_id = $1; with
\* includeProjects the handler then queries the projects of each customer
ListCustomers(s, uid, includeProjects) ==
    LET r == Request("listCustomers", "projects", uid, 0, 0, 0, EmptyRec, EmptyRec)
        found == {c \in customers : c.userId = uid}
        rows == {Ref("customer", c) : c \in found}
    IN  /\ Accept(s)
        /\ IF includeProjects /\ found # {}
           THEN Suspend(s, [r EXCEPT !.loc = [todo |-> {c.id : c \in found}, rows |-> rows]])
           ELSE ReplyNow(r, 200, rows, EmptyRec)
        /\ UNCHANGED <<users, customers, projects, tasks, nextId, hist, fn, today>>

\* SELECT * FROM projects WHERE customer_id = $1 AND user_id = $2, for the
\* next customer of the list
ListCustomersProjects(s) ==
    LET r == reqs[s]
        cid == Min(r.loc.todo)
        found == {p \in projects : p.customerId = cid /\ p.userId = r.uid}
        rows == r.loc.rows \cup {Ref("project", p) : p \in found}
        todo == r.loc.todo \ {cid}
    IN  /\ At(s, "listCustomers", "projects")
        /\ IF todo = {}
           THEN Reply(s, r, 200, rows, EmptyRec)
           ELSE /\ reqs' = [reqs EXCEPT ![s] = [r EXCEPT !.loc = [todo |-> todo, rows |-> rows]]]
                /\ UNCHANGED lastResp
        /\ UNCHANGED <<users, customers, projects, tasks, nextId, quota, hist, fn, today>>

-----------------------------------------------------------------------------
(* Projects: src/routes/projects.js *)

\* router.get('/'): the "customer belongs to the user" query.  Its result
\* object (not its first row) is tested, so the handler never answers 404.
ListProjectsCheck(s, uid, cid, includeTasks) ==
    LET r == Request("listProjects", "select", uid, cid, 0, 0,
                     [includeTasks |-> includeTasks], EmptyRec)
        customer == [rows |-> OwnedCustomers(cid, uid)]
    IN  /\ Accept(s)
        /\ IF customer = Undefined THEN ReplyNow(r, 404, {}, EmptyRec)
           ELSE Suspend(s, r)
        /\ UNCHANGED <<users, customers, projects, tasks, nextId, hist, fn, today>>

\* SELECT * FROM projects WHERE customer_id = $1 AND user_id = $2
ListProjectsSelect(s) ==
    LET r == reqs[s]
        found == {p \in projects : p.customerId = r.cid /\ p.userId = r.uid}
        rows == {Ref("project", p) : p \in found}
    IN  /\ At(s, "listProjects", "select")
        /\ IF r.body.includeTasks /\ found # {}
           THEN /\ reqs' = [reqs EXCEPT ![s] =
                      [r EXCEPT !.pc = "tasks",
                                !.loc = [todo |-> {p.id : p \in found}, rows |-> rows,
                                         order |-> <<>>]]]
                /\ UNCHANGED lastResp
           ELSE Reply(s, r, 200, rows, EmptyRec)
        /\ UNCHANGED <<users, customers, projects, tasks, nextId, quota, hist, fn, today>>

\* the task ids of a sequence of task rows
IdsOf(seq) == [i \in 1..Len(seq) |-> seq[i].id]

\* the orders in which ORDER BY order_num ASC may return a set of task rows:
\* rows of equal order_num come in any order
OrderedByNum(S) ==
    {seq \in [1..Cardinality(S) -> S] :
        /\ \A i \in 1..Cardinality(S) : \A j \in 1..Cardinality(S) :
              i < j => (seq[i] # seq[j] /\ seq[i].orderNum <= seq[j].orderNum)}

\* SELECT * FROM tasks WHERE project_id = $1 AND user_id = $2 ORDER BY order_num ASC,
\* for the next project of the list
ListProjectsTasks(s) ==
    LET r == reqs[s]
        pid == Min(r.loc.todo)
        found == {t \in tasks : t.projectId = pid /\ t.userId = r.uid}
        rows == r.loc.rows \cup {Ref("task", t) : t \in found}
        todo == r.loc.todo \ {pid}
    IN  /\ At(s, "listProjects", "tasks")
        /\ \E seq \in OrderedByNum(found) :
              LET order == r.loc.order \o IdsOf(seq)
              IN  IF todo = {}
                  THEN Reply(s, r, 200, rows, [order |-> order])
                  ELSE /\ reqs' = [reqs EXCEPT ![s] =
                             [r EXCEPT !.loc = [todo |-> todo, rows |-> rows, order |-> order]]]
                       /\ UNCHANGED lastResp
        /\ UNCHANGED <<users, customers, projects, tasks, nextId, quota, hist, fn, today>>


\* requests in flight that will insert into a table
Inserting(op) == Cardinality({s \in Slots : reqs[s].op = op})

\* router.post('/'): validation and the "customer belongs to the user" query
\* a mutant of CreateProjectCheck: the customer is looked up by id only
CreateProjectCheck_AnyCustomer(s, uid, cid, b) ==
    LET r == Request("createProject", IF b.invoiceNumber = Empty THEN "readUser" ELSE "insert",
                     uid, cid, 0, 0, b, [invoiceNumber |-> b.invoiceNumber])
    IN  /\ Accept(s)
        /\ IF b.name = "" THEN ReplyNow(r, 400, {}, EmptyRec)
           ELSE IF {c \in customers : c.id = cid} = {} THEN ReplyNow(r, 404, {}, EmptyRec)
           ELSE /\ nextId.projects + Inserting("createProject") <= MaxRows
                /\ Suspend(s, r)
        /\ UNCHANGED <<users, customers, projects, tasks, nextId, hist, fn, today>>

CreateProjectCheck(s, uid, cid, b) ==
    LET r == Request("createProject", IF b.invoiceNumber = Empty THEN "readUser" ELSE "insert",
                     uid, cid, 0, 0, b, [invoiceNumber |-> b.invoiceNumber])
    IN  /\ Accept(s)
        /\ IF b.name = "" THEN ReplyNow(r, 400, {}, EmptyRec)
           ELSE IF OwnedCustomers(cid, uid) = {} THEN ReplyNow(r, 404, {}, EmptyRec)
           ELSE /\ nextId.projects + Inserting("createProject") <= MaxRows
                /\ Suspend(s, r)
        /\ UNCHANGED <<users, customers, projects, tasks, nextId, hist, fn, today>>

\* a mutant of CreateProjectReadUser: the project gets the number after the
\* user's current one
CreateProjectReadUser_Next(s) ==
    LET r == reqs[s]
    IN  /\ At(s, "createProject", "readUser")
        /\ reqs' = [reqs EXCEPT ![s] =
              [r EXCEPT !.pc = "insert",
                        !.loc = [invoiceNumber |-> incrementPattern(users[r.uid].invoiceNumber)]]]
        /\ UNCHANGED <<users, customers, projects, tasks, nextId, lastResp, quota, hist, fn, today>>

\* if (!invoiceNumber): SELECT invoice_number FROM users WHERE id = $1
CreateProjectReadUser(s) ==
    LET r == reqs[s]
    IN  /\ At(s, "createProject", "readUser")
        /\ reqs' = [reqs EXCEPT ![s] =
              [r EXCEPT !.pc = "insert", !.loc = [invoiceNumber |-> users[r.uid].invoiceNumber]]]
        /\ UNCHANGED <<users, customers, projects, tasks, nextId, lastResp, quota, hist, fn, today>>

\* a mutant of CreateProjectInsert: the row gets the number after the one
\* that was read
CreateProjectInsert_Next(s) ==
    LET r == reqs[s]
        id == nextId.projects
    IN  /\ At(s, "createProject", "insert")
        /\ projects' = projects \cup
              {ProjectRow(id, r.cid, r.uid, r.body, incrementPattern(r.loc.invoiceNumber))}
        /\ nextId' = [nextId EXCEPT !.projects = id + 1]
        /\ hist' = [hist EXCEPT !.created = @ \cup {Created("project", id, r.cid, r.uid)},
                                !.auto = IF r.body.invoiceNumber = Empty THEN @ \cup {id} ELSE @,
                                !.given = IF r.body.invoiceNumber = Empty THEN @
                                          ELSE @ \cup {<<id, r.body.invoiceNumber>>}]
        /\ reqs' = [reqs EXCEPT ![s] =
              [r EXCEPT !.pc = "readNext", !.pid = id]]
        /\ UNCHANGED <<users, customers, tasks, lastResp, quota, fn, today>>

\* INSERT INTO projects (...) RETURNING id
CreateProjectInsert(s) ==
    LET r == reqs[s]
        id == nextId.projects
    IN  /\ At(s, "createProject", "insert")
        /\ projects' = projects \cup {ProjectRow(id, r.cid, r.uid, r.body, r.loc.invoiceNumber)}
        /\ nextId' = [nextId EXCEPT !.projects = id + 1]
        /\ hist' = [hist EXCEPT !.created = @ \cup {Created("project", id, r.cid, r.uid)},
                                !.auto = IF r.body.invoiceNumber = Empty THEN @ \cup {id} ELSE @,
                                !.given = IF r.body.invoiceNumber = Empty THEN @
                                          ELSE @ \cup {<<id, r.body.invoiceNumber>>}]
        /\ reqs' = [reqs EXCEPT ![s] =
              [r EXCEPT !.pc = "readNext", !.pid = id]]
        /\ UNCHANGED <<users, customers, tasks, lastResp, quota, fn, today>>

\* a mutant of CreateProjectReadNext: no increment when the request gave an
\* invoice number
CreateProjectReadNext_SkipGiven(s) ==
    LET r == reqs[s]
        current == users[r.uid].invoiceNumber
        nextInvoiceNo == IF r.body.invoiceNumber = Empty THEN incrementPattern(current)
                         ELSE current
    IN  /\ At(s, "createProject", "readNext")
        /\ reqs' = [reqs EXCEPT ![s] =
              [r EXCEPT !.pc = "updateUser",
                        !.loc = [invoiceNumber |-> r.loc.invoiceNumber, next |-> nextInvoiceNo]]]
        /\ UNCHANGED <<users, customers, projects, tasks, nextId, lastResp, quota, hist, fn, today>>

\* incrementPattern(SELECT invoice_number FROM users WHERE id = $1)
CreateProjectReadNext(s) ==
    LET r == reqs[s]
        nextInvoiceNo == incrementPattern(users[r.uid].invoiceNumber)
    IN  /\ At(s, "createProject", "readNext")
        /\ reqs' = [reqs EXCEPT ![s] =
              [r EXCEPT !.pc = "updateUser",
                        !.loc = [invoiceNumber |-> r.loc.invoiceNumber, next |-> nextInvoiceNo]]]
        /\ UNCHANGED <<users, customers, projects, tasks, nextId, lastResp, quota, hist, fn, today>>

\* UPDATE users SET invoice_number = $1 WHERE id = $2, then the reply
CreateProjectUpdateUser(s) ==
    LET r == reqs[s]
    IN  /\ At(s, "createProject", "updateUser")
        /\ users' = [users EXCEPT ![r.uid].invoiceNumber = r.loc.next]
        /\ Reply(s, r, 200, {}, [id |-> r.pid, invoiceNumber |-> r.loc.invoiceNumber])
        /\ UNCHANGED <<customers, projects, tasks, nextId, quota, hist, fn, today>>

\* router.put('/:projectId'): validation and the ownership check
UpdateProjectCheck(s, uid, cid, pid, b) ==
    LET r == Request("updateProject", "update", uid, cid, pid, 0, b, EmptyRec)
    IN  /\ Accept(s)
        /\ IF b.name = "" THEN ReplyNow(r, 400, {}, EmptyRec)
           ELSE IF OwnedProjects(pid, cid, uid) = {} THEN ReplyNow(r, 404, {}, EmptyRec)
           ELSE Suspend(s, r)
        /\ UNCHANGED <<users, customers, projects, tasks, nextId, hist, fn, today>>

\* UPDATE projects SET ... WHERE id = $8 AND customer_id = $9 AND user_id = $10
UpdateProjectWrite(s) ==
    LET r == reqs[s]
        hit == OwnedProjects(r.pid, r.cid, r.uid)
    IN  /\ At(s, "updateProject", "update")
        /\ projects' = (projects \ hit)
              \cup {ProjectRow(p.id, p.customerId, p.userId, r.body, r.body.invoiceNumber) : p \in hit}
        /\ hist' = [hist EXCEPT !.auto = @ \ {p.id : p \in hit},
                                !.dates = {d \in @ : d[1] \notin {p.id : p \in hit}}]
        /\ Goto(s, r, "reread")
        /\ UNCHANGED <<users, customers, tasks, nextId, lastResp, quota, fn, today>>

\* SELECT * FROM projects WHERE id = $1 AND customer_id = $2 AND user_id = $3,
\* then res.json(toCamelCase(updated))
UpdateProjectReread(s) ==
    LET r == reqs[s]
        updated == OwnedProjects(r.pid, r.cid, r.uid)
    IN  /\ At(s, "updateProject", "reread")
        /\ Reply(s, r, 200, {Ref("project", p) : p \in updated}, EmptyRec)
        /\ UNCHANGED <<users, customers, projects, tasks, nextId, quota, hist, fn, today>>

\* history: the project row and its tasks, as stored now
StoredUnderProject(pid, cid, uid) ==
    {Ref("project", p) : p \in OwnedProjects(pid, cid, uid)}
    \cup {Ref("task", t) : t \in {t2 \in tasks : t2.projectId = pid}}

\* router.delete('/:projectId'): the ownership check
DeleteProjectCheck(s, uid, cid, pid) ==
    LET r == Request("deleteProject", "delTasks", uid, cid, pid, 0, EmptyRec,
                     [snap |-> StoredUnderProject(pid, cid, uid)])
    IN  /\ Accept(s)
        /\ IF OwnedProjects(pid, cid, uid) = {} THEN ReplyNow(r, 404, {}, EmptyRec)
           ELSE Suspend(s, r)
        /\ UNCHANGED <<users, customers, projects, tasks, nextId, hist, fn, today>>

\* DELETE FROM tasks WHERE project_id = $1 AND user_id = $2
DeleteProjectTasks(s) ==
    LET r == reqs[s]
    IN  /\ At(s, "deleteProject", "delTasks")
        /\ tasks' = {t \in tasks : ~(t.projectId = r.pid /\ t.userId = r.uid)}
        /\ Goto(s, r, "delProject")
        /\ UNCHANGED <<users, customers, projects, nextId, lastResp, quota, hist, fn, today>>

\* the tasks ever inserted under a project
SubtreeOfProject(pid, uid) ==
    {[kind |-> "project", id |-> pid, userId |-> uid]}
    \cup {[kind |-> "task", id |-> e.id, userId |-> uid] :
            e \in {e2 \in hist.created : e2.kind = "task" /\ e2.parent = pid}}

\* DELETE FROM projects WHERE id = $1 AND customer_id = $2 AND user_id = $3,
\* then the reply
DeleteProjectRow(s) ==
    LET r == reqs[s]
    IN  /\ At(s, "deleteProject", "delProject")
        /\ projects' = projects \ OwnedProjects(r.pid, r.cid, r.uid)
        /\ hist' = [hist EXCEPT !.gone = @ \cup SubtreeOfProject(r.pid, r.uid)]
        /\ Reply(s, r, 200, {}, EmptyRec)
        /\ UNCHANGED <<users, customers, tasks, nextId, quota, fn, today>>


-----------------------------------------------------------------------------
(* Tasks: src/routes/tasks.js *)

\* router.get('/'): the ownership check of the project
ListTasksCheck(s, uid, cid, pid) ==
    LET r == Request("listTasks", "select", uid, cid, pid, 0, EmptyRec, EmptyRec)
    IN  /\ Accept(s)
        /\ IF OwnedProjects(pid, cid, uid) = {} THEN ReplyNow(r, 404, {}, EmptyRec)
           ELSE Suspend(s, r)
        /\ UNCHANGED <<users, customers, projects, tasks, nextId, hist, fn, today>>

\* SELECT * FROM tasks WHERE project_id = $1 AND user_id = $2
ListTasksSelect(s) ==
    LET r == reqs[s]
        found == {t \in tasks : t.projectId = r.pid /\ t.userId = r.uid}
    IN  /\ At(s, "listTasks", "select")
        /\ Reply(s, r, 200, {Ref("task", t) : t \in found}, EmptyRec)
        /\ UNCHANGED <<users, customers, projects, tasks, nextId, quota, hist, fn, today>>

\* router.post('/'): validation and the ownership check of the project
CreateTaskCheck(s, uid, cid, pid, b) ==
    LET r == Request("createTask", "insert", uid, cid, pid, 0, b, EmptyRec)
    IN  /\ Accept(s)
        /\ IF b.name = "" THEN ReplyNow(r, 400, {}, EmptyRec)
           ELSE IF OwnedProjects(pid, cid, uid) = {} THEN ReplyNow(r, 404, {}, EmptyRec)
           ELSE /\ nextId.tasks + Inserting("createTask") <= MaxRows
                /\ Suspend(s, r)
        /\ UNCHANGED <<users, customers, projects, tasks, nextId, hist, fn, today>>

\* INSERT INTO tasks (...) RETURNING id, then the reply
CreateTaskInsert(s) ==
    LET r == reqs[s]
        id == nextId.tasks
    IN  /\ At(s, "createTask", "insert")
        /\ tasks' = tasks \cup {TaskRow(id, r.pid, r.uid, r.body)}
        /\ nextId' = [nextId EXCEPT !.tasks = id + 1]
        /\ hist' = [hist EXCEPT !.created = @ \cup {Created("task", id, r.pid, r.uid)}]
        /\ Reply(s, r, 200, {}, [id |-> id])
        /\ UNCHANGED <<users, customers, projects, quota, fn, today>>

\* router.put('/:taskId'): validation and the ownership check through the join
UpdateTaskCheck(s, uid, cid, pid, tid, b) ==
    LET r == Request("updateTask", "update", uid, cid, pid, tid, b, EmptyRec)
    IN  /\ Accept(s)
        /\ IF b.name = "" THEN ReplyNow(r, 400, {}, EmptyRec)
           ELSE IF OwnedTasks(tid, pid, cid, uid) = {} THEN ReplyNow(r, 404, {}, EmptyRec)
           ELSE Suspend(s, r)
        /\ UNCHANGED <<users, customers, projects, tasks, nextId, hist, fn, today>>

\* a mutant of TaskByKey: WHERE id = $1 alone
TaskByKey_IdOnly(tid, pid, uid) ==
    {t \in tasks : t.id = tid}

\* WHERE id = $1 AND project_id = $2 AND user_id = $3
TaskByKey(tid, pid, uid) ==
    {t \in tasks : t.id = tid /\ t.projectId = pid /\ t.userId = uid}

\* UPDATE tasks SET name, estimated_hours, completed, date WHERE id = $5 AND
\* project_id = $6 AND user_id = $7
UpdateTaskWrite(s) ==
    LET r == reqs[s]
        hit == TaskByKey(r.tid, r.pid, r.uid)
    IN  /\ At(s, "updateTask", "update")
        /\ tasks' = (tasks \ hit)
              \cup {[t EXCEPT !.name = r.body.name, !.estimatedHours = r.body.estimatedHours,
                              !.completed = r.body.completed] : t \in hit}
        /\ Goto(s, r, "reread")
        /\ UNCHANGED <<users, customers, projects, nextId, lastResp, quota, hist, fn, today>>

\* SELECT * FROM tasks WHERE id = $1 AND project_id = $2 AND user_id = $3, then
\* res.json(toCamelCase(updated))
UpdateTaskReread(s) ==
    LET r == reqs[s]
    IN  /\ At(s, "updateTask", "reread")
        /\ Reply(s, r, 200, {Ref("task", t) : t \in TaskByKey(r.tid, r.pid, r.uid)}, EmptyRec)
        /\ UNCHANGED <<users, customers, projects, tasks, nextId, quota, hist, fn, today>>

\* router.delete('/:taskId'): the ownership check through the join
DeleteTaskCheck(s, uid, cid, pid, tid) ==
    LET r == Request("deleteTask", "delete", uid, cid, pid, tid, EmptyRec, EmptyRec)
    IN  /\ Accept(s)
        /\ IF OwnedTasks(tid, pid, cid, uid) = {} THEN ReplyNow(r, 404, {}, EmptyRec)
           ELSE Suspend(s, r)
        /\ UNCHANGED <<users, customers, projects, tasks, nextId, hist, fn, today>>

\* DELETE FROM tasks WHERE id = $1 AND project_id = $2 AND user_id = $3, then
\* the reply
DeleteTaskRow(s) ==
    LET r == reqs[s]
    IN  /\ At(s, "deleteTask", "delete")
        /\ tasks' = tasks \ TaskByKey(r.tid, r.pid, r.uid)
        /\ hist' = [hist EXCEPT !.gone = @ \cup {[kind |-> "task", id |-> r.tid, userId |-> r.uid]}]
        /\ Reply(s, r, 200, {}, EmptyRec)
        /\ UNCHANGED <<users, customers, projects, nextId, quota, fn, today>>

\* a mutant of ReorderCheck: the first entry is applied before the project is
\* checked
ReorderCheck_ApplyFirst(s, uid, cid, pid, isArray, order) ==
    LET r == Request("reorder", "apply", uid, cid, pid, 0, [order |-> order], [i |-> 1])
        hit == IF isArray /\ order # <<>> THEN TaskByKey(order[1].id, pid, uid) ELSE {}
    IN  /\ Accept(s)
        /\ IF ~isArray THEN ReplyNow(r, 400, {}, EmptyRec) /\ UNCHANGED tasks
           ELSE IF OwnedProjects(pid, cid, uid) = {}
           THEN /\ ReplyNow(r, 404, {}, EmptyRec)
                /\ tasks' = (tasks \ hit) \cup {[t EXCEPT !.orderNum = order[1].order] : t \in hit}
           ELSE IF order = <<>> THEN ReplyNow(r, 200, {}, EmptyRec) /\ UNCHANGED tasks
           ELSE Suspend(s, r) /\ UNCHANGED tasks
        /\ UNCHANGED <<users, customers, projects, nextId, hist, fn, today>>

\* router.patch('/order'): validation and the ownership check of the project;
\* order is the batch [{id, order}, ...], or not an array
ReorderCheck(s, uid, cid, pid, isArray, order) ==
    LET r == Request("reorder", "apply", uid, cid, pid, 0, [order |-> order], [i |-> 1])
    IN  /\ Accept(s)
        /\ IF ~isArray THEN ReplyNow(r, 400, {}, EmptyRec)
           ELSE IF OwnedProjects(pid, cid, uid) = {} THEN ReplyNow(r, 404, {}, EmptyRec)
           ELSE IF order = <<>> THEN ReplyNow(r, 200, {}, EmptyRec)
           ELSE Suspend(s, r)
        /\ UNCHANGED <<users, customers, projects, tasks, nextId, hist, fn, today>>

\* history: the order that a batch gives to each task of the project it names
\* (the last entry of a task counts)
Ranks(order, pid, uid) ==
    {<<order[i].id, order[i].order>> :
        i \in {k \in 1..Len(order) :
                  /\ TaskByKey(order[k].id, pid, uid) # {}
                  /\ \A m \in (k + 1)..Len(order) : order[m].id # order[k].id}}

\* a mutant of ReorderApply: an entry that matches no task ends the request
ReorderApply_Strict(s) ==
    LET r == reqs[s]
        item == r.body.order[r.loc.i]
        hit == TaskByKey(item.id, r.pid, r.uid)
    IN  /\ At(s, "reorder", "apply")
        /\ tasks' = (tasks \ hit) \cup {[t EXCEPT !.orderNum = item.order] : t \in hit}
        /\ IF hit = {}
           THEN Reply(s, r, 404, {}, EmptyRec) /\ UNCHANGED hist
           ELSE IF r.loc.i = Len(r.body.order)
           THEN /\ Reply(s, r, 200, {}, EmptyRec)
                /\ hist' = [hist EXCEPT !.ranks =
                       {e \in @ : \A n \in Ranks(r.body.order, r.pid, r.uid) : n[1] # e[1]}
                       \cup Ranks(r.body.order, r.pid, r.uid)]
           ELSE /\ reqs' = [reqs EXCEPT ![s] = [r EXCEPT !.loc = [i |-> r.loc.i + 1]]]
                /\ UNCHANGED <<lastResp, hist>>
        /\ UNCHANGED <<users, customers, projects, nextId, quota, fn, today>>

\* UPDATE tasks SET order_num = $1 WHERE id = $2 AND project_id = $3 AND
\* user_id = $4, for the next item of the batch
ReorderApply(s) ==
    LET r == reqs[s]
        item == r.body.order[r.loc.i]
        hit == TaskByKey(item.id, r.pid, r.uid)
    IN  /\ At(s, "reorder", "apply")
        /\ tasks' = (tasks \ hit) \cup {[t EXCEPT !.orderNum = item.order] : t \in hit}
        /\ IF r.loc.i = Len(r.body.order)
           THEN /\ Reply(s, r, 200, {}, EmptyRec)
                /\ hist' = [hist EXCEPT !.ranks =
                       {e \in @ : \A n \in Ranks(r.body.order, r.pid, r.uid) : n[1] # e[1]}
                       \cup Ranks(r.body.order, r.pid, r.uid)]
           ELSE /\ reqs' = [reqs EXCEPT ![s] = [r EXCEPT !.loc = [i |-> r.loc.i + 1]]]
                /\ UNCHANGED <<lastResp, hist>>
        /\ UNCHANGED <<users, customers, projects, nextId, quota, fn, today>>


-----------------------------------------------------------------------------
(* Invoice preview: src/utils/camel-case.js (buildInvoiceData) and
   src/unnamed/part_003 (the preview handler) *)

\* a mutant of TaskBefore: ORDER BY order_num DESC
TaskBefore_Desc(a, b) ==
    a.orderNum > b.orderNum \/ (a.orderNum = b.orderNum /\ a.id < b.id)

\* ORDER BY order_num ASC, id ASC
TaskBefore(a, b) ==
    a.orderNum < b.orderNum \/ (a.orderNum = b.orderNum /\ a.id < b.id)

RECURSIVE OrderedTasks(_)
OrderedTasks(S) ==
    IF S = {} THEN <<>>
    ELSE LET first == CHOOSE t \in S : \A u \in S \ {t} : TaskBefore(t, u)
         IN  <<first>> \o OrderedTasks(S \ {first})

\* (s, t) => s + t.estimatedHours * project.hourlyRate
LineCost(project, t) == t.estimatedHours * project.hourlyRate

\* toCamelCase(tasks).reduce(..., 0)
RECURSIVE ReduceCost(_, _, _)
ReduceCost(project, ts, acc) ==
    IF ts = <<>> THEN acc
    ELSE ReduceCost(project, Tail(ts), acc + LineCost(project, Head(ts)))

isFixed(project) == project.pricingType = "FIXED"

\* a mutant of subtotal: the tasks are summed whatever the pricing type
subtotal_AlwaysTasks(project, ts) == ReduceCost(project, ts, 0)

\* const subtotal = isFixed ? project.fixedPrice : tasks.reduce(...)
subtotal(project, ts) ==
    IF isFixed(project) THEN project.fixedPrice ELSE ReduceCost(project, ts, 0)

\* `${y}-${m}-${d}` of new Date()
DateString(day) == ToString(day)

\* buildInvoiceData: SELECT * FROM users WHERE id = $1
PreviewUser(s, uid, cid, pid) ==
    LET r == Request("preview", "customer", uid, cid, pid, 0, EmptyRec, [user |-> users[uid]])
    IN  /\ Accept(s)
        /\ Suspend(s, r)
        /\ UNCHANGED <<users, customers, projects, tasks, nextId, hist, fn, today>>

\* SELECT * FROM customers WHERE id = $1 AND user_id = $2; a missing row
\* throws, and the handler's catch answers 500
PreviewCustomer(s) ==
    LET r == reqs[s]
        found == OwnedCustomers(r.cid, r.uid)
    IN  /\ At(s, "preview", "customer")
        /\ IF found = {} THEN Reply(s, r, 500, {}, [error |-> "not found"])
           ELSE /\ reqs' = [reqs EXCEPT ![s] =
                      [r EXCEPT !.pc = "project",
                                !.loc = [user |-> r.loc.user,
                                         rows |-> {Ref("customer", c) : c \in found}]]]
                /\ UNCHANGED lastResp
        /\ UNCHANGED <<users, customers, projects, tasks, nextId, quota, hist, fn, today>>

\* SELECT * FROM projects WHERE id = $1 AND customer_id = $2 AND user_id = $3;
\* a missing row throws
PreviewProject(s) ==
    LET r == reqs[s]
        found == OwnedProjects(r.pid, r.cid, r.uid)
        project == CHOOSE p \in found : TRUE
    IN  /\ At(s, "preview", "project")
        /\ IF found = {} THEN Reply(s, r, 500, {}, [error |-> "not found"])
           ELSE /\ reqs' = [reqs EXCEPT ![s] =
                      [r EXCEPT !.pc = "tasks",
                                !.loc = [user |-> r.loc.user, project |-> project,
                                         rows |-> r.loc.rows \cup {Ref("project", project)}]]]
                /\ UNCHANGED lastResp
        /\ UNCHANGED <<users, customers, projects, tasks, nextId, quota, hist, fn, today>>

\* vatPercentRaw, vatPercent: vat_percent is a number (REAL)
vatPercent(user) == user.vatPercent

\* a mutant of vatAmount: the sign of vatPercent is not looked at
vatAmount_Unguarded(sub, pct) == sub * pct

\* vatPercent > 0 ? data.subtotal * (vatPercent / 100) : 0, in hundredths
vatAmount(sub, pct) == IF pct > 0 THEN sub * pct ELSE 0

\* vatPercent > 0 ? data.subtotal + vatAmount : data.subtotal, in hundredths
total(sub, pct) == IF pct > 0 THEN 100 * sub + vatAmount(sub, pct) ELSE 100 * sub

\* obj[key] || 0 for a numeric property: a key that the object does not have
\* gives undefined, and so 0
OrZero(obj, key) == IF key \in DOMAIN obj THEN obj[key] ELSE 0

\* items: data.tasks and data.project are the rows as the store returns them,
\* with the column names estimated_hours and hourly_rate; a cost is <<>> for
\* null and <<n>> for a number
items(project, ts) ==
    [i \in 1..Len(ts) |->
        LET t == [id |-> ts[i].id, name |-> ts[i].name,
                  estimated_hours |-> ts[i].estimatedHours]
            dataProject == [id |-> project.id, hourly_rate |-> project.hourlyRate]
        IN  [hours |-> OrZero(t, "estimatedHours"),
             cost |-> IF isFixed(project) THEN <<>>
                      ELSE <<OrZero(t, "estimatedHours") * OrZero(dataProject, "hourlyRate")>>]]

\* the body of the preview response; vatAmount and total in hundredths
PreviewData(user, project, ts, invoiceDate) ==
    LET sub == subtotal(project, ts)
    IN  [invoiceNo |-> project.invoiceNumber, invoiceDate |-> invoiceDate,
         isFixed |-> isFixed(project), subtotal |-> sub, order |-> IdsOf(ts),
         items |-> items(project, ts),
         vatPercent |-> vatPercent(user),
         vatAmount |-> vatAmount(sub, vatPercent(user)),
         total |-> total(sub, vatPercent(user))]

\* history: the invoice date that a preview of the project returned
Dated(pid, invoiceDate) == hist' = [hist EXCEPT !.dates = @ \cup {<<pid, invoiceDate>>}]

\* SELECT * FROM tasks WHERE project_id = $1 AND user_id = $2 ORDER BY order_num
\* ASC, id ASC; the subtotal; then the reply, unless the invoice date is still
\* to be set
PreviewTasks(s) ==
    LET r == reqs[s]
        found == {t \in tasks : t.projectId = r.pid /\ t.userId = r.uid}
        ts == OrderedTasks(found)
        rows == r.loc.rows \cup {Ref("task", t) : t \in found}
        project == r.loc.project
    IN  /\ At(s, "preview", "tasks")
        /\ IF project.invoiceDate = NoDate
           THEN /\ reqs' = [reqs EXCEPT ![s] =
                      [r EXCEPT !.pc = "persistDate",
                                !.loc = [user |-> r.loc.user, project |-> project,
                                         rows |-> rows, tasks |-> ts,
                                         invoiceDate |-> DateString(today)]]]
                /\ UNCHANGED lastResp
                /\ UNCHANGED hist
           ELSE /\ Reply(s, r, 200, rows, PreviewData(r.loc.user, project, ts, project.invoiceDate))
                /\ Dated(r.pid, project.invoiceDate)
        /\ UNCHANGED <<users, customers, projects, tasks, nextId, quota, fn, today>>

\* UPDATE projects SET invoice_date = $1 WHERE id = $2 AND customer_id = $3 AND
\* user_id = $4, then the reply
PreviewPersistDate(s) ==
    LET r == reqs[s]
        hit == OwnedProjects(r.pid, r.cid, r.uid)
    IN  /\ At(s, "preview", "persistDate")
        /\ projects' = (projects \ hit) \cup {[p EXCEPT !.invoiceDate = r.loc.invoiceDate] : p \in hit}
        /\ Reply(s, r, 200, r.loc.rows,
                 PreviewData(r.loc.user, r.loc.project, r.loc.tasks, r.loc.invoiceDate))
        /\ Dated(r.pid, r.loc.invoiceDate)
        /\ UNCHANGED <<users, customers, tasks, nextId, quota, fn, today>>

\* the UPDATE throws: the inner catch logs it and the handler replies all the same
PreviewPersistFails(s) ==
    LET r == reqs[s]
    IN  /\ At(s, "preview", "persistDate")
        /\ Reply(s, r, 200, r.loc.rows,
                 PreviewData(r.loc.user, r.loc.project, r.loc.tasks, r.loc.invoiceDate))
        /\ Dated(r.pid, r.loc.invoiceDate)
        /\ UNCHANGED <<users, customers, projects, tasks, nextId, quota, fn, today>>

-----------------------------------------------------------------------------
(* Profile: src/routes/auth.js, router.put('/profile') *)

\* validation, then UPDATE users SET ..., vat_percent = $12, invoice_number = $13, ...
UpdateProfileWrite(s, uid, b) ==
    LET r == Request("updateProfile", "reread", uid, 0, 0, 0, b, EmptyRec)
    IN  /\ Accept(s)
        /\ IF ~b.named
           THEN /\ ReplyNow(r, 400, {}, EmptyRec)
                /\ UNCHANGED <<users, hist>>
           ELSE /\ users' = [users EXCEPT ![uid].invoiceNumber = b.invoiceNumber,
                                          ![uid].vatPercent = b.vatPercent]
                /\ hist' = [hist EXCEPT !.manual =
                              IF b.invoiceNumber # users[uid].invoiceNumber THEN @ \cup {uid} ELSE @]
                /\ Suspend(s, r)
        /\ UNCHANGED <<customers, projects, tasks, nextId, fn, today>>

\* SELECT ... FROM users WHERE id = $1, then the reply
UpdateProfileReread(s) ==
    LET r == reqs[s]
    IN  /\ At(s, "updateProfile", "reread")
        /\ Reply(s, r, 200, {}, [invoiceNumber |-> users[r.uid].invoiceNumber])
        /\ UNCHANGED <<users, customers, projects, tasks, nextId, quota, hist, fn, today>>

-----------------------------------------------------------------------------
(* Accounts: src/routes/auth.js (register, login), src/routes/admin.js and
   the authenticateToken middleware *)

\* email.toLowerCase()
toLowerCase(email) == IF email = "E3" THEN "e3" ELSE email

UserByEmail(email) == {u \in DOMAIN users : users[u].email = email}

\* the middleware: the token verifies and SELECT id, email, first_name,
\* last_name, role FROM users WHERE id = $1 finds the user
authenticateToken(uid) == uid \in hist.tokens /\ uid \in DOMAIN users

\* POST /register: the validation and SELECT id FROM users WHERE email = $1
RegisterCheck(s, b) ==
    LET r == Request("register", "insert", 0, 0, 0, 0, b, EmptyRec)
    IN  /\ Accept(s)
        /\ IF ~b.valid THEN ReplyNow(r, 400, {}, [error |-> "invalid"])
           ELSE IF UserByEmail(toLowerCase(b.email)) # {}
           THEN ReplyNow(r, 400, {}, [error |-> "User already exists with this email"])
           ELSE Suspend(s, r)
        /\ UNCHANGED <<users, customers, projects, tasks, nextId, hist, fn, today>>

\* a mutant of RegisterInsert: the new user is active
RegisterInsert_Active(s) ==
    LET r == reqs[s]
        id == nextId.users
        email == toLowerCase(r.body.email)
        row == [invoiceNumber |-> Empty, vatPercent |-> 0, email |-> email,
                password |-> hashPassword(r.body.password), role |-> "user", active |-> 1]
    IN  /\ At(s, "register", "insert")
        /\ IF UserByEmail(email) # {}
           THEN /\ Reply(s, r, 500, {}, [error |-> "Internal server error"])
                /\ UNCHANGED <<users, nextId, hist>>
           ELSE /\ id <= MaxUsers
                /\ users' = [u \in DOMAIN users \cup {id} |-> IF u = id THEN row ELSE users[u]]
                /\ nextId' = [nextId EXCEPT !.users = id + 1]
                /\ hist' = [hist EXCEPT !.registered = @ \cup {id}]
                /\ Reply(s, r, 201, {}, [id |-> id, role |-> "user", active |-> 0])
        /\ UNCHANGED <<customers, projects, tasks, quota, fn, today>>

\* hashPassword, then INSERT INTO users (..., role, active) VALUES (..., 'user', 0)
\* RETURNING id; email is UNIQUE, so a row with the same email makes it throw
RegisterInsert(s) ==
    LET r == reqs[s]
        id == nextId.users
        email == toLowerCase(r.body.email)
        row == [invoiceNumber |-> Empty, vatPercent |-> 0, email |-> email,
                password |-> hashPassword(r.body.password), role |-> "user", active |-> 0]
    IN  /\ At(s, "register", "insert")
        /\ IF UserByEmail(email) # {}
           THEN /\ Reply(s, r, 500, {}, [error |-> "Internal server error"])
                /\ UNCHANGED <<users, nextId, hist>>
           ELSE /\ id <= MaxUsers
                /\ users' = [u \in DOMAIN users \cup {id} |-> IF u = id THEN row ELSE users[u]]
                /\ nextId' = [nextId EXCEPT !.users = id + 1]
                /\ hist' = [hist EXCEPT !.registered = @ \cup {id}]
                /\ Reply(s, r, 201, {}, [id |-> id, role |-> "user", active |-> 0])
        /\ UNCHANGED <<customers, projects, tasks, quota, fn, today>>

\* POST /login: SELECT * FROM users WHERE email = $1, comparePassword, the
\* active check, generateToken
Login(s, email, password) ==
    LET r == Request("login", "login", 0, 0, 0, 0, EmptyRec, EmptyRec)
        found == UserByEmail(toLowerCase(email))
        id == CHOOSE u \in found : TRUE
    IN  /\ Accept(s)
        /\ IF found = {}
           THEN ReplyNow(r, 401, {}, [error |-> "Invalid email or password"]) /\ UNCHANGED hist
           ELSE IF ~comparePassword(password, users[id].password)
           THEN ReplyNow(r, 401, {}, [error |-> "Invalid email or password"]) /\ UNCHANGED hist
           ELSE IF users[id].active = 0
           THEN ReplyNow(r, 403, {}, [error |-> "Account is not active"]) /\ UNCHANGED hist
           ELSE /\ ReplyNow(r, 200, {}, [token |-> id])
                /\ hist' = [hist EXCEPT !.tokens = @ \cup {id}]
        /\ UNCHANGED <<users, customers, projects, tasks, nextId, fn, today>>

\* the digits that a string starts with
RECURSIVE LeadingDigits(_)
LeadingDigits(str) ==
    IF str = <<>> \/ ~IsDigit(str[1]) THEN <<>>
    ELSE <<str[1]>> \o LeadingDigits(Tail(str))

NaN == 0 - 1

\* parseInt(id, 10) of a string without sign or leading white space
parseInt(id) == IF LeadingDigits(id) = <<>> THEN NaN ELSE ParseInt(LeadingDigits(id))

\* the value of a string of hexadecimal digits 0..9
RECURSIVE ParseHex(_)
ParseHex(num) ==
    IF num = <<>> THEN 0
    ELSE 16 * ParseHex(SubSeq(num, 1, Len(num) - 1)) + DigitVal(num[Len(num)])

\* WHERE id = $1 with a text parameter: the store reads the text as an integer.
\* Decimal digits are read by every server; "0x" and hexadecimal digits only
\* by a server whose integer input takes non-decimal literals (PostgreSQL 16
\* and later), any other text makes the query throw (NaN here)
IntegerInput(id, nonDecimal) ==
    IF id # <<>> /\ LeadingDigits(id) = id THEN ParseInt(id)
    ELSE IF /\ nonDecimal /\ Len(id) > 2 /\ id[1] = "0" /\ id[2] = "x"
            /\ LeadingDigits(SubSeq(id, 3, Len(id))) = SubSeq(id, 3, Len(id))
    THEN ParseHex(SubSeq(id, 3, Len(id)))
    ELSE NaN

\* a JavaScript value used as a condition; the values of the field "active"
\* are undefined, 0, 1, '0' and '1'
Truthy(v) == v \notin {"undefined", "num:0"}

\* PUT /api/admin/users/:id: authenticateToken, requireAdmin, the validation
\* and the guard against removing one's own admin role
AdminUpdateCheck(s, uid, id, b) ==
    LET r == Request("adminUpdate", "write", uid, 0, 0, 0, [id |-> id, role |-> b.role, active |-> b.active], EmptyRec)
    IN  /\ authenticateToken(uid)
        /\ Accept(s)
        /\ IF users[uid].role # "admin" THEN ReplyNow(r, 403, {}, [error |-> "Admin access required"])
           ELSE IF b.active \notin {"undefined", "num:0", "num:1", "str:0", "str:1"}
           THEN ReplyNow(r, 400, {}, [error |-> "Invalid active value"])
           ELSE IF parseInt(id) = uid /\ b.role # "" /\ b.role # "admin"
           THEN ReplyNow(r, 400, {}, [error |-> "Cannot remove your own admin role"])
           ELSE IF b.role = "" /\ b.active = "undefined"
           THEN ReplyNow(r, 400, {}, [error |-> "No fields to update"])
           ELSE Suspend(s, r)
        /\ UNCHANGED <<users, customers, projects, tasks, nextId, hist, fn, today>>

\* UPDATE users SET role = $2, active = $3, updated_at = CURRENT_TIMESTAMP
\* WHERE id = $1, with the fields that the body has
AdminUpdateWrite(s) ==
    LET r == reqs[s]
        b == r.body
    IN  /\ At(s, "adminUpdate", "write")
        /\ \E nonDecimal \in BOOLEAN :
              LET target == IntegerInput(b.id, nonDecimal)
                  row == [[users[target] EXCEPT !.role = IF b.role # "" THEN b.role ELSE @]
                             EXCEPT !.active = IF b.active = "undefined" THEN @
                                               ELSE IF Truthy(b.active) THEN 1 ELSE 0]
              IN  IF target = NaN
                  THEN /\ Reply(s, r, 500, {}, [error |-> "Internal server error"])
                       /\ UNCHANGED <<users, hist>>
                  ELSE /\ reqs' = [reqs EXCEPT ![s] = [r EXCEPT !.pc = "reread", !.loc = [target |-> target]]]
                       /\ UNCHANGED lastResp
                       /\ IF target \in DOMAIN users
                          THEN /\ users' = [users EXCEPT ![target] = row]
                               /\ hist' = [hist EXCEPT !.adminSet =
                                      IF b.active # "undefined" THEN @ \cup {target} ELSE @]
                          ELSE UNCHANGED <<users, hist>>
        /\ UNCHANGED <<customers, projects, tasks, nextId, quota, fn, today>>

\* SELECT id, email, first_name, last_name, role, active FROM users
\* WHERE id = $1, then the reply
AdminUpdateReread(s) ==
    LET r == reqs[s]
        target == r.loc.target
    IN  /\ At(s, "adminUpdate", "reread")
        /\ IF target \in DOMAIN users
           THEN Reply(s, r, 200, {}, [id |-> target, role |-> users[target].role,
                                      active |-> users[target].active])
           ELSE Reply(s, r, 200, {}, EmptyRec)
        /\ UNCHANGED <<users, customers, projects, tasks, nextId, quota, hist, fn, today>>

-----------------------------------------------------------------------------
(* The environment *)

\* The query a suspended handler waits for throws (connectivity, constraint):
\* the handler's catch answers 500.  The preview's UPDATE of the invoice date
\* has a catch of its own (PreviewPersistFails).
StorageFailure(s) ==
    LET r == reqs[s]
    IN  /\ r.op # "idle"
        /\ ~At(s, "preview", "persistDate")
        /\ Reply(s, r, 500, {}, [error |-> "storage",
                                 snap |-> IF r.op \in {"deleteCustomer", "deleteProject"}
                                          THEN r.loc.snap ELSE {}])
        /\ UNCHANGED <<users, customers, projects, tasks, nextId, quota, hist, fn, today>>


-----------------------------------------------------------------------------
(* The entity store under concurrent requests of two users *)

\* the ids a request may name: those of the rows of Init
ParamIds == {1, 2}

StoreProjectBodies == {ProjectDefaults("n2"), ProjectDefaults("")}

StoreTaskBodies == {TaskDefaults("n2"), TaskDefaults("")}

StoreBatches ==
    {<<[id |-> t, order |-> 1]>> : t \in ParamIds}
    \cup {<<[id |-> 1, order |-> 2], [id |-> 2, order |-> 1]>>}

\* a profile body without the required names, and one that sets the running
\* invoice number by hand
StoreProfileBodies ==
    {[named |-> FALSE, invoiceNumber |-> Empty, vatPercent |-> 0],
     [named |-> TRUE, invoiceNumber |-> <<"7">>, vatPercent |-> 0]}

StoreStart(s) ==
    \E uid \in UserIds, cid \in ParamIds, pid \in ParamIds, tid \in ParamIds :
        \/ \E name \in Names \cup {""} : CreateCustomer(s, uid, name)
        \/ \E name \in Names \cup {""} : UpdateCustomerCheck(s, uid, cid, name)
        \/ DeleteCustomerCheck(s, uid, cid)
        \/ \E inc \in BOOLEAN : ListCustomers(s, uid, inc)
        \/ \E inc \in BOOLEAN : ListProjectsCheck(s, uid, cid, inc)
        \/ \E b \in StoreProjectBodies : CreateProjectCheck(s, uid, cid, b)
        \/ \E b \in StoreProjectBodies : UpdateProjectCheck(s, uid, cid, pid, b)
        \/ DeleteProjectCheck(s, uid, cid, pid)
        \/ ListTasksCheck(s, uid, cid, pid)
        \/ \E b \in StoreTaskBodies : CreateTaskCheck(s, uid, cid, pid, b)
        \/ \E b \in StoreTaskBodies : UpdateTaskCheck(s, uid, cid, pid, tid, b)
        \/ DeleteTaskCheck(s, uid, cid, pid, tid)
        \/ \E batch \in StoreBatches : ReorderCheck(s, uid, cid, pid, TRUE, batch)
        \/ ReorderCheck(s, uid, cid, pid, FALSE, <<>>)
        \/ PreviewUser(s, uid, cid, pid)
        \/ \E b \in StoreProfileBodies : UpdateProfileWrite(s, uid, b)

StoreStep(s) ==
    \/ UpdateCustomerWrite(s)
    \/ DeleteCustomerTasks(s)
    \/ DeleteCustomerProjects(s)
    \/ DeleteCustomerRow(s)
    \/ ListCustomersProjects(s)
    \/ ListProjectsSelect(s)
    \/ ListProjectsTasks(s)
    \/ CreateProjectReadUser(s)
    \/ CreateProjectInsert(s)
    \/ CreateProjectReadNext(s)
    \/ CreateProjectUpdateUser(s)
    \/ UpdateProjectWrite(s)
    \/ UpdateProjectReread(s)
    \/ DeleteProjectTasks(s)
    \/ DeleteProjectRow(s)
    \/ ListTasksSelect(s)
    \/ CreateTaskInsert(s)
    \/ UpdateTaskWrite(s)
    \/ UpdateTaskReread(s)
    \/ DeleteTaskRow(s)
    \/ ReorderApply(s)
    \/ PreviewCustomer(s)
    \/ PreviewProject(s)
    \/ PreviewTasks(s)
    \/ PreviewPersistDate(s)
    \/ PreviewPersistFails(s)
    \/ UpdateProfileReread(s)
    \/ StorageFailure(s)

Next == \E s \in Slots : StoreStart(s) \/ StoreStep(s)

Spec == Init /\ [][Next]_vars


-----------------------------------------------------------------------------
(* Properties of the entity store *)

\* the users whose request takes the step
ActingUsers ==
    {IF reqs[s].op = "idle" THEN reqs'[s].uid ELSE reqs[s].uid :
        s \in {x \in Slots : reqs'[x] # reqs[x]}}
    \cup (IF quota' # quota /\ reqs' = reqs THEN {lastResp'.uid} ELSE {})

\* the step leaves every row of the users that do not act as it is
ForeignRowsKept ==
    /\ \A c \in customers : c.userId \notin ActingUsers => c \in customers'
    /\ \A p \in projects : p.userId \notin ActingUsers => p \in projects'
    /\ \A t \in tasks : t.userId \notin ActingUsers => t \in tasks'

\* a response holds only rows of the user it answers
OwnRowsReturned == \A row \in lastResp.rows : row.userId = lastResp.uid

\* C1: for two distinct users U1 and U2, no step of a request authenticated as
\* U2 updates, reorders or deletes a customer, project or task row of U1, and no
\* response to U2 holds a row of U1, whatever ids U2's request names.
C1_Isolation == [][ForeignRowsKept /\ OwnRowsReturned']_vars

\* C1 witness: user 2 asked to delete a task naming rows of user 1, was
\* answered 404, and the rows of user 1 are all there.
C1_Witness ==
    /\ lastResp.op = "deleteTask" /\ lastResp.uid = 2 /\ lastResp.foreign
    /\ lastResp.status = 404
    /\ \E t \in tasks : t.id = 1 /\ t.userId = 1

\* C2: no two projects of one user whose invoiceNumber came from the allocator
\* (none supplied at creation, not rewritten since) hold the same invoiceNumber,
\* unless a profile update changed the user's invoiceNumber by hand; overlapping
\* project creations of the user included.
C2_AllocatedNumbersDiffer ==
    \A p \in projects : \A q \in projects :
        (/\ p.id # q.id /\ p.userId = q.userId
         /\ p.id \in hist.auto /\ q.id \in hist.auto
         /\ p.userId \notin hist.manual)
        => p.invoiceNumber # q.invoiceNumber

\* every row a failed delete found when it began is still stored
AllStored(snap) ==
    \A e \in snap :
        \/ e.kind = "customer" /\ \E c \in customers : c.id = e.id
        \/ e.kind = "project" /\ \E p \in projects : p.id = e.id
        \/ e.kind = "task" /\ \E t \in tasks : t.id = e.id

NoneStored(snap) ==
    \A e \in snap :
        /\ e.kind = "customer" => ~\E c \in customers : c.id = e.id
        /\ e.kind = "project" => ~\E p \in projects : p.id = e.id
        /\ e.kind = "task" => ~\E t \in tasks : t.id = e.id

\* C3: when a customer delete or a project delete ends in a storage failure,
\* the rows of the subtree it found are either all stored or all removed.
C3_DeleteAllOrNothing ==
    (lastResp.op \in {"deleteCustomer", "deleteProject"} /\ lastResp.status = 500)
        => (AllStored(lastResp.data.snap) \/ NoneStored(lastResp.data.snap))

\* the rows that a successful delete of their owner removed are not stored
GoneNotStored ==
    \A g \in hist.gone :
        /\ g.kind = "customer" => ~\E c \in customers : c.id = g.id
        /\ g.kind = "project" => ~\E p \in projects : p.id = g.id
        /\ g.kind = "task" => ~\E t \in tasks : t.id = g.id

\* a later request of the same user that names a removed row is answered 404
\* (unless its body is invalid or the store fails under it)
LateRequestsDenied ==
    (lastResp.late /\ lastResp.status # 400
        /\ ~(lastResp.status = 500 /\ lastResp.data.error = "storage"))
        => lastResp.status = 404

\* C4: after a customer delete (or project delete) of the owner succeeded, no
\* project of that customer and no task of those projects is stored, and every
\* later request of that user naming one of the removed ids is answered
\* NotFoundOrDenied (404).
C4_DeletedStayGone == GoneNotStored /\ LateRequestsDenied

\* C16: every customer, project, task and reorder operation and every invoice
\* preview whose path names a customer, project or task that is not owned by
\* the requester is answered NotFoundOrDenied (404), unless its body is invalid
\* or the store fails under it
C16_ForeignDenied ==
    (lastResp.foreign /\ lastResp.status # 400
        /\ ~(lastResp.status = 500 /\ lastResp.data.error = "storage"))
        => lastResp.status = 404

\* the row that the update of slot s wrote is no longer stored
UpdatedRowGone(s) ==
    /\ reqs[s].pc = "reread"
    /\ \/ /\ reqs[s].op = "updateProject"
          /\ OwnedProjects(reqs[s].pid, reqs[s].cid, reqs[s].uid) = {}
       \/ /\ reqs[s].op = "updateTask"
          /\ TaskByKey(reqs[s].tid, reqs[s].pid, reqs[s].uid) = {}

\* C21: if the row being updated is deleted by a concurrent request between
\* the write of an update handler and its re-read, the update is answered
\* NotFoundOrDenied (404) rather than success (unless the store fails under
\* the re-read)
C21_UpdateOfDeletedDenied ==
    [][\A s \in Slots :
          (UpdatedRowGone(s) /\ reqs'[s].op = "idle" /\ lastResp'.status # 500)
             => lastResp'.status = 404]_vars

\* C23: whenever a project-creation request reports failure, no project row
\* was inserted by it
C23_FailedCreationInsertsNothing ==
    [][\A s \in Slots :
          (reqs[s].op = "createProject" /\ reqs'[s].op = "idle" /\ lastResp'.status # 200)
             => Created("project", reqs[s].pid, reqs[s].cid, reqs[s].uid) \notin hist.created]_vars

\* a project has the user of its customer and a task the user of its project,
\* where the parent row exists
OwnersAgree ==
    /\ \A p \in projects : \A c \in customers : c.id = p.customerId => c.userId = p.userId
    /\ \A t \in tasks : \A p \in projects : p.id = t.projectId => p.userId = t.userId

\* the step changes no userId, customerId or projectId of a row that stays
KeysKept ==
    /\ \A c \in customers : \A d \in customers' : c.id = d.id => c.userId = d.userId
    /\ \A p \in projects : \A q \in projects' :
          p.id = q.id => (p.userId = q.userId /\ p.customerId = q.customerId)
    /\ \A t \in tasks : \A u \in tasks' :
          t.id = u.id => (t.userId = u.userId /\ t.projectId = u.projectId)

\* C25: in every reachable state each project whose customer row exists has
\* the userId of that customer and each task whose project row exists has the
\* userId of that project; no operation changes the userId, customerId or
\* projectId of an existing row
C25_OwnersAgree == [][OwnersAgree' /\ KeysKept]_vars

\* user 2 asked for a project under the customer of user 1 and was refused,
\* and a project created by its owner is stored
C25_Witness ==
    /\ lastResp.op = "createProject" /\ lastResp.uid = 2 /\ lastResp.status = 404
    /\ lastResp.foreign
    /\ \E p \in projects : p.id > 2

\* no handler is running
AtRest == \A s \in Slots : reqs[s].op = "idle"

\* the step answers a request
Answered ==
    \/ quota' < quota /\ reqs' = reqs
    \/ \E s \in Slots : reqs[s].op # "idle" /\ reqs'[s].op = "idle"

\* C29: a request that is answered with 404 or 400 is answered by its first
\* step, and that step leaves every user, customer, project and task row
\* unchanged: a rejected project creation does not advance the user's
\* invoiceNumber, a reorder whose project check fails updates no task.
C29_RejectedChangesNothing ==
    [][(Answered /\ lastResp'.status \in {400, 404})
          => (reqs' = reqs /\ UNCHANGED <<users, customers, projects, tasks>>)]_vars

\* a project creation and a reorder of the same user were both rejected and
\* the rows are those of the start
C29_Witness ==
    /\ AtRest /\ quota = 0
    /\ lastResp.op \in {"createProject", "reorder"} /\ lastResp.status \in {400, 404}
    /\ users[lastResp.uid].invoiceNumber = lastResp.prior
    /\ hist.gone = {} /\ nextId.projects = 3 /\ \A t \in tasks : t.orderNum = 0

\* the step is one of the reorder request in slot s
ReorderStep(s) ==
    \/ reqs[s].op = "reorder" /\ reqs'[s] # reqs[s]
    \/ reqs[s].op = "idle" /\ reqs'[s].op = "reorder"

\* task t is named in the batch of request r and is of r's project and user
Reordered(r, t) ==
    /\ t.projectId = r.pid /\ t.userId = r.uid
    /\ \E i \in 1..Len(r.body.order) : r.body.order[i].id = t.id

\* tasks' is tasks but for the order of the tasks that r reorders
OnlyOrderChanged(r) ==
    /\ \A t \in tasks :
          \/ t \in tasks'
          \/ Reordered(r, t) /\ \E n \in 0..MaxRows : [t EXCEPT !.orderNum = n] \in tasks'
    /\ Cardinality(tasks') = Cardinality(tasks)

\* C30: a step of a reorder request changes only the order of tasks that the
\* batch names and that are of the validated project and of the requester:
\* their other fields, the tasks of other projects and users, and the
\* customer, project and user rows are unchanged.  A reorder that is answered
\* by its first step changes nothing.
C30_ReorderFrame ==
    [][/\ \A s \in Slots :
              ReorderStep(s) =>
                  /\ UNCHANGED <<users, customers, projects>>
                  /\ OnlyOrderChanged(IF reqs[s].op = "idle" THEN reqs'[s] ELSE reqs[s])
       /\ (quota' < quota /\ reqs' = reqs /\ lastResp'.op = "reorder")
              => UNCHANGED <<users, customers, projects, tasks>>]_vars

\* user 1 sent [{id:1,order:2},{id:2,order:1}] for its project 1: task 1 took
\* order 2 and kept its name, task 2 of user 2 kept its order
C30_Witness ==
    /\ lastResp.op = "reorder" /\ lastResp.uid = 1 /\ lastResp.status = 200
    /\ \E t \in tasks : t.id = 1 /\ t.orderNum = 2 /\ t.name = "n1"
    /\ \E t \in tasks : t.id = 2 /\ t.userId = 2 /\ t.orderNum = 0

\* every project row has its customer row and every task row its project row
NoOrphans ==
    /\ \A p \in projects : \E c \in customers : c.id = p.customerId
    /\ \A t \in tasks : \E p \in projects : p.id = t.projectId

\* C6: once every request has run to completion, no task row references a
\* project that is not stored and no project row a customer that is not stored.
C6_NoOrphansAtRest == (\A s \in Slots : reqs[s].op = "idle") => NoOrphans

-----------------------------------------------------------------------------
(* Cascade deletes next to read requests *)

CascadeStart(s) ==
    \E uid \in UserIds, cid \in ParamIds, pid \in ParamIds :
        \/ DeleteCustomerCheck(s, uid, cid)
        \/ DeleteProjectCheck(s, uid, cid, pid)
        \/ \E inc \in BOOLEAN : ListCustomers(s, uid, inc)
        \/ \E inc \in BOOLEAN : ListProjectsCheck(s, uid, cid, inc)
        \/ ListTasksCheck(s, uid, cid, pid)
        \/ PreviewUser(s, uid, cid, pid)

CascadeStep(s) ==
    \/ DeleteCustomerTasks(s)
    \/ DeleteCustomerProjects(s)
    \/ DeleteCustomerRow(s)
    \/ DeleteProjectTasks(s)
    \/ DeleteProjectRow(s)
    \/ ListCustomersProjects(s)
    \/ ListProjectsSelect(s)
    \/ ListProjectsTasks(s)
    \/ ListTasksSelect(s)
    \/ PreviewCustomer(s)
    \/ PreviewProject(s)
    \/ PreviewTasks(s)
    \/ PreviewPersistDate(s)
    \/ PreviewPersistFails(s)
    \/ StorageFailure(s)

NextCascade == \E s \in Slots : CascadeStart(s) \/ CascadeStep(s)

SpecCascade == Init /\ [][NextCascade]_vars

\* the rows a handler holds from its earlier queries
Held(r) == IF "rows" \in DOMAIN r.loc THEN r.loc.rows ELSE {}

\* the rows that the query of this step returned to its handler
RowsRead ==
    UNION {IF reqs'[s].op = "idle" THEN lastResp'.rows \ Held(reqs[s])
           ELSE Held(reqs'[s]) \ Held(reqs[s]) :
              s \in {x \in Slots : reqs'[x] # reqs[x]}}
    \cup (IF quota' # quota /\ reqs' = reqs THEN lastResp'.rows ELSE {})

\* the row is stored, and so is the row it references
ParentStored(e) ==
    /\ e.kind = "project" =>
          \E p \in projects : p.id = e.id /\ \E c \in customers : c.id = p.customerId
    /\ e.kind = "task" =>
          \E t \in tasks : t.id = e.id /\ \E p \in projects : p.id = t.projectId

\* C5: while a customer or project cascade delete runs next to read requests
\* only, no query of a read returns a project whose customer row is deleted, nor
\* a task whose project row is deleted.
C5_ReadsSeeNoOrphan == [][\A e \in RowsRead : ParentStored(e)]_vars

\* C5 witness: a customer cascade has removed the tasks and not yet the
\* projects, and a read of the same user found the project without tasks.
C5_Witness ==
    /\ lastResp.op = "listTasks" /\ lastResp.status = 200 /\ lastResp.rows = {}
    /\ \E s \in Slots : At(s, "deleteCustomer", "delProjects") /\ reqs[s].uid = lastResp.uid

-----------------------------------------------------------------------------
(* incrementPattern on its own *)

\* the characters of the invoice numbers drawn
IncrChars == {"0", "1", "9", "A", "-", " ", "\n"}

RECURSIVE StringsUpTo(_)
StringsUpTo(n) ==
    IF n = 0 THEN {<<>>}
    ELSE LET shorter == StringsUpTo(n - 1)
         IN  shorter \cup {Append(v, c) : v \in {w \in shorter : Len(w) = n - 1}, c \in IncrChars}

IncrExamples ==
    {<<"I", "N", "V", "-", "0", "0", "9", "9">>,
     <<"I", "N", "V", "-", "9", "9", "9", "9">>,
     <<"A", "B", "C">>}

InitIncr ==
    /\ InitStore
    /\ reqs = [s \in Slots |-> Idle]
    /\ lastResp = NoResp
    /\ quota = 0
    /\ today = 1
    /\ \E v \in StringsUpTo(MaxLen) \cup IncrExamples :
          fn = [current |-> v, done |-> FALSE, result |-> <<>>]

ApplyIncrement ==
    /\ ~fn.done
    /\ fn' = [fn EXCEPT !.done = TRUE, !.result = incrementPattern(fn.current)]
    /\ UNCHANGED <<users, customers, projects, tasks, nextId, reqs, lastResp, quota, hist, today>>

NextIncr == ApplyIncrement

SpecIncr == InitIncr /\ [][NextIncr]_vars

HasDigit(v) == \E i \in 1..Len(v) : IsDigit(v[i])

\* the end of the last contiguous run of digits, and its start
RunEnd(v) == Max({i \in 1..Len(v) : IsDigit(v[i])})

RunStart(v) == Min({i \in 1..RunEnd(v) : \A k \in i..RunEnd(v) : IsDigit(v[k])})

\* the value after v by the rule of the specification
NextByRule(v) ==
    IF v = <<>> \/ IsBlank(v) THEN <<"0", "0", "0", "0", "1">>
    ELSE IF ~HasDigit(v) THEN v \o <<"-", "0", "0", "1">>
    ELSE LET run == SubSeq(v, RunStart(v), RunEnd(v))
         IN  SubSeq(v, 1, RunStart(v) - 1)
             \o PadStart(NumToString(ParseInt(run) + 1), Len(run))
             \o SubSeq(v, RunEnd(v) + 1, Len(v))

\* C7: the increment maps an empty or blank value to "00001", a value without
\* a digit to the value followed by "-001", and any other value to the value
\* with its last run of digits replaced by that number plus one, zero-padded
\* to the run's width, prefix and suffix unchanged.
C7_IncrementByRule == fn.done => fn.result = NextByRule(fn.current)

-----------------------------------------------------------------------------
(* The invoice-number allocator when the requests of a user do not overlap *)

\* no request of the user is in flight
Alone(uid) == \A s \in Slots : reqs[s].uid # uid

INV0099 == <<"I", "N", "V", "-", "0", "0", "9", "9">>

\* the running invoice numbers that a profile update sets
AllocNumbers == {Empty, INV0099, <<"A", "B", "C">>}

AllocProfileBodies ==
    {[named |-> TRUE, invoiceNumber |-> n, vatPercent |-> 0] : n \in AllocNumbers}

\* project bodies without an invoice number, with one, and without a name
AllocProjectBodies ==
    {ProjectDefaults("n2"),
     [ProjectDefaults("n2") EXCEPT !.invoiceNumber = <<"X", "5">>],
     ProjectDefaults("")}

AllocStart(s) ==
    \E uid \in UserIds :
        /\ Alone(uid)
        /\ \/ \E b \in AllocProjectBodies : CreateProjectCheck(s, uid, uid, b)
           \/ \E b \in AllocProfileBodies : UpdateProfileWrite(s, uid, b)

AllocStep(s) ==
    \/ CreateProjectReadUser(s)
    \/ CreateProjectInsert(s)
    \/ CreateProjectReadNext(s)
    \/ CreateProjectUpdateUser(s)
    \/ UpdateProfileReread(s)

NextAlloc == \E s \in Slots : AllocStart(s) \/ AllocStep(s)

SpecAlloc == InitSeq /\ [][NextAlloc]_vars

\* the last response answers a project creation that succeeded, and the user
\* has sent no request since
Created200 ==
    /\ lastResp.op = "createProject" /\ lastResp.status = 200
    /\ Alone(lastResp.uid)

\* C8: when a project creation without an explicit invoiceNumber succeeds and
\* no other request of the user overlaps it, the new project's invoiceNumber is
\* the user's invoiceNumber as it was before the request, and the user's
\* invoiceNumber after it is the increment of that value.
C8_AllocatedIsPrior ==
    (Created200 /\ lastResp.data.id \in hist.auto)
    => /\ \E p \in projects : p.id = lastResp.data.id /\ p.invoiceNumber = lastResp.prior
       /\ users[lastResp.uid].invoiceNumber = incrementPattern(lastResp.prior)

\* C8 witness: a project created without an invoice number while the user's
\* number was "INV-0099"; the user's number is now "INV-0100".
C8_Witness ==
    /\ Created200 /\ lastResp.data.id \in hist.auto
    /\ lastResp.prior = INV0099
    /\ users[lastResp.uid].invoiceNumber = <<"I", "N", "V", "-", "0", "1", "0", "0">>

\* the project of the last response stores the invoice number its request gave
GivenStored ==
    \E g \in hist.given :
        /\ g[1] = lastResp.data.id
        /\ \E p \in projects : p.id = g[1] /\ p.invoiceNumber = g[2]

\* C9 as stated: when a project creation supplies a non-empty invoiceNumber, the
\* project stores exactly that value and the user's running invoiceNumber is
\* left as it was before the request.
C9_GivenLeavesUser ==
    (Created200 /\ lastResp.data.id \notin hist.auto)
    => (GivenStored /\ users[lastResp.uid].invoiceNumber = lastResp.prior)

\* C9 amended: when a project creation supplies a non-empty invoiceNumber, the
\* project stores exactly that value, and the user's running invoiceNumber is
\* advanced by one increment all the same.
C9_GivenStoredUserAdvanced ==
    (Created200 /\ lastResp.data.id \notin hist.auto)
    => (GivenStored /\ users[lastResp.uid].invoiceNumber = incrementPattern(lastResp.prior))

\* C9 witness: a project created with the invoice number "X5" while the user's
\* number was "00001"; the user's number is now "00002".
C9_Witness ==
    /\ Created200 /\ lastResp.data.id \notin hist.auto
    /\ lastResp.data.invoiceNumber = <<"X", "5">>
    /\ lastResp.prior = Seed00001
    /\ users[lastResp.uid].invoiceNumber = <<"0", "0", "0", "0", "2">>

-----------------------------------------------------------------------------
(* The invoice of one project, its requests one after another *)

InvoiceProjectBodies ==
    {[ProjectDefaults("n1") EXCEPT !.hourlyRate = 50],
     [ProjectDefaults("n1") EXCEPT !.hourlyRate = 50, !.pricingType = "FIXED", !.fixedPrice = 500],
     ProjectDefaults("")}

InvoiceTaskBodies ==
    {[TaskDefaults("n1") EXCEPT !.estimatedHours = h] : h \in {2, 3}} \cup {TaskDefaults("")}

\* profile bodies that set the user's VAT rate: negative, and 19 percent
InvoiceProfileBodies ==
    {[named |-> TRUE, invoiceNumber |-> Seed00001, vatPercent |-> v] : v \in {-5, 19}}

InvoiceStart(s) ==
    \E tid \in Ids :
        /\ Alone(1)
        /\ \/ \E b \in InvoiceProjectBodies : UpdateProjectCheck(s, 1, 1, 1, b)
           \/ \E b \in InvoiceTaskBodies : CreateTaskCheck(s, 1, 1, 1, b)
           \/ \E b \in InvoiceTaskBodies : UpdateTaskCheck(s, 1, 1, 1, tid, b)
           \/ DeleteTaskCheck(s, 1, 1, 1, tid)
           \/ PreviewUser(s, 1, 1, 1)
           \/ \E b \in InvoiceProfileBodies : UpdateProfileWrite(s, 1, b)

InvoiceStep(s) ==
    \/ UpdateProjectWrite(s)
    \/ UpdateProjectReread(s)
    \/ CreateTaskInsert(s)
    \/ UpdateTaskWrite(s)
    \/ UpdateTaskReread(s)
    \/ DeleteTaskRow(s)
    \/ PreviewCustomer(s)
    \/ PreviewProject(s)
    \/ PreviewTasks(s)
    \/ PreviewPersistDate(s)
    \/ PreviewPersistFails(s)
    \/ UpdateProfileReread(s)

NextInvoice == \E s \in Slots : InvoiceStart(s) \/ InvoiceStep(s)

SpecInvoice == InitSeq /\ [][NextInvoice]_vars

\* the sum of the estimated hours of a set of task rows
RECURSIVE SumHours(_)
SumHours(S) ==
    IF S = {} THEN 0
    ELSE LET t == CHOOSE x \in S : TRUE
         IN  t.estimatedHours + SumHours(S \ {t})

\* the last response is a preview of project 1, and nothing was sent since
Previewed ==
    /\ lastResp.op = "preview" /\ lastResp.status = 200
    /\ Alone(lastResp.uid)

\* C10: the subtotal of a FIXED project is its fixedPrice whatever tasks it
\* has, and the subtotal of an HOURLY project is the sum over its tasks of
\* estimatedHours times the project's hourlyRate (0 without tasks).
C10_Subtotal ==
    Previewed =>
        \A p \in {q \in projects : q.id = 1} :
            lastResp.data.subtotal =
                IF p.pricingType = "FIXED" THEN p.fixedPrice
                ELSE SumHours({t \in tasks : t.projectId = p.id}) * p.hourlyRate

\* C10 witness: an HOURLY project at rate 50 with two tasks of 3 and 2 hours
\* was previewed, and the subtotal is 250.
C10_Witness ==
    /\ Previewed /\ ~lastResp.data.isFixed
    /\ \E p \in projects : p.id = 1 /\ p.hourlyRate = 50
    /\ {t.estimatedHours : t \in {u \in tasks : u.projectId = 1}} = {2, 3}
    /\ lastResp.data.subtotal = 250

\* C27: in the structured invoice view of an HOURLY project each line item's
\* hours are the task's estimatedHours and its cost is estimatedHours times
\* hourlyRate; for a FIXED project every line item has no cost
C27_LineItems ==
    Previewed =>
        \A i \in 1..Len(lastResp.data.items) :
            LET t == CHOOSE x \in tasks : x.id = lastResp.data.order[i]
                p == CHOOSE x \in projects : x.id = t.projectId
                item == lastResp.data.items[i]
            IN  IF lastResp.data.isFixed THEN item.cost = <<>>
                ELSE item.hours = t.estimatedHours
                     /\ item.cost = <<t.estimatedHours * p.hourlyRate>>

\* C11: in the invoice view, vatAmount is subtotal * vatPercent / 100 when the
\* user's vatPercent is greater than 0 and 0 otherwise, and total is
\* subtotal + vatAmount when vatPercent is greater than 0 and subtotal
\* otherwise (amounts compared in hundredths).
C11_Vat ==
    Previewed =>
        LET pct == users[lastResp.uid].vatPercent
            sub == lastResp.data.subtotal
        IN  /\ pct > 0 => /\ lastResp.data.vatAmount = sub * pct
                          /\ lastResp.data.total = 100 * sub + lastResp.data.vatAmount
            /\ pct <= 0 => /\ lastResp.data.vatAmount = 0
                           /\ lastResp.data.total = 100 * sub

\* C11 witness: a FIXED project of fixedPrice 500 previewed at 19 percent:
\* vatAmount 95.00 and total 595.00.
C11_Witness ==
    /\ Previewed /\ lastResp.data.isFixed
    /\ users[lastResp.uid].vatPercent = 19
    /\ lastResp.data.subtotal = 500
    /\ lastResp.data.vatAmount = 9500
    /\ lastResp.data.total = 59500

-----------------------------------------------------------------------------
(* The invoice date of one project under previews, project updates and the
   clock *)

\* new Date() moves on to the next calendar day
Tick ==
    /\ today < MaxDay
    /\ today' = today + 1
    /\ UNCHANGED <<users, customers, projects, tasks, nextId, reqs, lastResp, quota, hist, fn>>

\* project bodies without an invoice date and with one
DateProjectBodies ==
    {ProjectDefaults("n2"), [ProjectDefaults("n2") EXCEPT !.invoiceDate = "d9"]}

DateStart(s) ==
    \/ PreviewUser(s, 1, 1, 1)
    \/ \E b \in DateProjectBodies : UpdateProjectCheck(s, 1, 1, 1, b)

DateStep(s) ==
    \/ PreviewCustomer(s)
    \/ PreviewProject(s)
    \/ PreviewTasks(s)
    \/ PreviewPersistDate(s)
    \/ PreviewPersistFails(s)
    \/ UpdateProjectWrite(s)
    \/ UpdateProjectReread(s)

NextDate == Tick \/ \E s \in Slots : DateStart(s) \/ DateStep(s)

InitDate == InitStore /\ InitServer(MaxDateReqs)

SpecDate == InitDate /\ [][NextDate]_vars

\* C12: the previews of a project since its last update all returned the same
\* invoiceDate, and once they are done that date is the one stored on the
\* project; overlapping previews, a change of day between them and a failed
\* write of the date included.
C12_PreviewDateStable ==
    /\ \A d1 \in hist.dates : \A d2 \in hist.dates : d1[1] = d2[1] => d1[2] = d2[2]
    /\ AtRest => \A d \in hist.dates : \A p \in projects : p.id = d[1] => p.invoiceDate = d[2]

\* the invoice dates that a preview sets
PreviewDates == {DateString(d) : d \in 1..MaxDay}

\* the step is the UPDATE of a project update that supplies an invoice date
\* other than the one stored on project p
SuppliesOtherDate(p) ==
    \E s \in Slots :
        /\ At(s, "updateProject", "update") /\ reqs'[s].pc = "reread"
        /\ reqs[s].pid = p.id
        /\ formattedInvoiceDate(reqs[s].body.invoiceDate) \notin {NoDate, p.invoiceDate}

\* C13: an invoiceDate set by a preview stays on the project through every
\* step of a further preview and of a project update that does not supply a
\* different invoiceDate.
C13_DateFrozen ==
    [][\A p \in projects :
          (p.invoiceDate \in PreviewDates /\ ~SuppliesOtherDate(p))
          => \A q \in projects' : q.id = p.id => q.invoiceDate = p.invoiceDate]_vars


-----------------------------------------------------------------------------
(* Task order: user 1 creates tasks in project 1, reorders them and reads
   them back, one request after the other *)

\* task 2 belongs to user 2; tasks 3 and 4 exist once user 1 has created them
OrderBatches ==
    {<<[id |-> 1, order |-> 2], [id |-> 3, order |-> 1]>>,
     <<[id |-> 1, order |-> 1], [id |-> 3, order |-> 2]>>,
     <<[id |-> 3, order |-> 2], [id |-> 2, order |-> 1], [id |-> 1, order |-> 3]>>,
     <<[id |-> 2, order |-> 1], [id |-> 1, order |-> 3]>>}

OrderStart(s) ==
    /\ Alone(1)
    /\ \/ CreateTaskCheck(s, 1, 1, 1, TaskDefaults("n2"))
       \/ \E order \in OrderBatches : ReorderCheck(s, 1, 1, 1, TRUE, order)
       \/ ListProjectsCheck(s, 1, 1, TRUE)
       \/ PreviewUser(s, 1, 1, 1)

OrderStep(s) ==
    \/ CreateTaskInsert(s)
    \/ ReorderApply(s)
    \/ ListProjectsSelect(s)
    \/ ListProjectsTasks(s)
    \/ PreviewCustomer(s)
    \/ PreviewProject(s)
    \/ PreviewTasks(s)
    \/ PreviewPersistDate(s)
    \/ PreviewPersistFails(s)

NextOrder == \E s \in Slots : OrderStart(s) \/ OrderStep(s)

SpecOrder == InitSeq /\ [][NextOrder]_vars

\* an ordered listing of tasks was returned
Listed ==
    /\ lastResp.op \in {"listProjects", "preview"}
    /\ lastResp.status = 200
    /\ "order" \in DOMAIN lastResp.data

\* task a was given a smaller order than task b of the same project
RankedBefore(a, b) ==
    /\ \E t \in tasks : \E u \in tasks :
          t.id = a /\ u.id = b /\ t.projectId = u.projectId
    /\ \E e \in hist.ranks : \E f \in hist.ranks :
          e[1] = a /\ f[1] = b /\ e[2] < f[2]

\* C14: after a successful reorder, an ordered listing of the project's tasks
\* (project listing with tasks, invoice preview) returns a task that was given
\* a smaller order before a task that was given a larger order
C14_ReorderedListing ==
    Listed =>
        \A i \in 1..Len(lastResp.data.order) : \A j \in 1..Len(lastResp.data.order) :
            RankedBefore(lastResp.data.order[i], lastResp.data.order[j]) => i < j

\* the preview lists task 3 before task 1 after [{id:1,order:2},{id:3,order:1}]
C14_Witness ==
    /\ lastResp.op = "preview" /\ lastResp.status = 200
    /\ lastResp.data.order = <<3, 1>>
    /\ {<<1, 2>>, <<3, 1>>} \subseteq hist.ranks

\* the stored task with this id
TaskById(id) == CHOOSE t \in tasks : t.id = id

\* C24: in a project listing that includes tasks, the tasks of a project come
\* in ascending order of the order field, and tasks of equal order in
\* ascending id
C24_ListingTiesById ==
    (lastResp.op = "listProjects" /\ "order" \in DOMAIN lastResp.data /\ AtRest) =>
        \A i \in 1..Len(lastResp.data.order) : \A j \in 1..Len(lastResp.data.order) :
            i < j => TaskBefore(TaskById(lastResp.data.order[i]),
                                TaskById(lastResp.data.order[j]))

\* C15: a reorder entry whose task id does not belong to the project and the
\* requester changes no row and raises no error; the other entries of the
\* batch are applied and the request reports success
C15_ForeignEntrySkipped ==
    (lastResp.op = "reorder" /\ AtRest) =>
        /\ lastResp.status = 200
        /\ \A e \in hist.ranks : \E t \in tasks : t.id = e[1] /\ t.orderNum = e[2]
        /\ \A t \in tasks : t.userId # 1 => t.orderNum = 0

\* the batch [{id:3,order:2},{id:2,order:1},{id:1,order:3}] was applied: task 2
\* of user 2 kept its order, tasks 3 and 1 took theirs
C15_Witness ==
    /\ lastResp.op = "reorder" /\ lastResp.status = 200
    /\ \E t \in tasks : t.id = 2 /\ t.userId = 2 /\ t.orderNum = 0
    /\ \E t \in tasks : t.id = 3 /\ t.orderNum = 2
    /\ \E t \in tasks : t.id = 1 /\ t.orderNum = 3


-----------------------------------------------------------------------------
(* Probing: user 1 sends requests, one after the other, whose paths name its
   own rows, rows of user 2 and ids that name no row; every request has a
   valid body *)

\* 1 names a row of user 1, 2 a row of user 2 and 4 no row
ProbeStart(s) ==
    \E cid \in {1, 2, 4}, pid \in {1, 2, 4}, tid \in {1, 2, 4} :
        /\ Alone(1)
        /\ \/ UpdateCustomerCheck(s, 1, cid, "n2")
           \/ DeleteCustomerCheck(s, 1, cid)
           \/ \E inc \in BOOLEAN : ListProjectsCheck(s, 1, cid, inc)
           \/ CreateProjectCheck(s, 1, cid, ProjectDefaults("n2"))
           \/ UpdateProjectCheck(s, 1, cid, pid, ProjectDefaults("n2"))
           \/ DeleteProjectCheck(s, 1, cid, pid)
           \/ ListTasksCheck(s, 1, cid, pid)
           \/ CreateTaskCheck(s, 1, cid, pid, TaskDefaults("n2"))
           \/ UpdateTaskCheck(s, 1, cid, pid, tid, TaskDefaults("n2"))
           \/ DeleteTaskCheck(s, 1, cid, pid, tid)
           \/ ReorderCheck(s, 1, cid, pid, TRUE, <<[id |-> 1, order |-> 1]>>)
           \/ PreviewUser(s, 1, cid, pid)

ProbeStep(s) ==
    \/ UpdateCustomerWrite(s)
    \/ DeleteCustomerTasks(s)
    \/ DeleteCustomerProjects(s)
    \/ DeleteCustomerRow(s)
    \/ ListProjectsSelect(s)
    \/ ListProjectsTasks(s)
    \/ CreateProjectReadUser(s)
    \/ CreateProjectInsert(s)
    \/ CreateProjectReadNext(s)
    \/ CreateProjectUpdateUser(s)
    \/ UpdateProjectWrite(s)
    \/ UpdateProjectReread(s)
    \/ DeleteProjectTasks(s)
    \/ DeleteProjectRow(s)
    \/ ListTasksSelect(s)
    \/ CreateTaskInsert(s)
    \/ UpdateTaskWrite(s)
    \/ UpdateTaskReread(s)
    \/ DeleteTaskRow(s)
    \/ ReorderApply(s)
    \/ PreviewCustomer(s)
    \/ PreviewProject(s)
    \/ PreviewTasks(s)
    \/ PreviewPersistDate(s)
    \/ PreviewPersistFails(s)

NextProbe == \E s \in Slots : ProbeStart(s) \/ ProbeStep(s)

InitProbe == InitStore /\ InitServer(MaxProbeReqs)

SpecProbe == InitProbe /\ [][NextProbe]_vars

\* two responses to the same operation of the same user, whose paths fail at
\* the same level: one names no row there, the other a row of another user
AbsentAndForeign(a, b) ==
    /\ a.op = b.op /\ a.uid = b.uid
    /\ a.unowned.level = b.unowned.level
    /\ a.unowned.kind = "absent" /\ b.unowned.kind = "foreign"

SameAnswer(a, b) == a.status = b.status /\ a.rows = b.rows /\ a.data = b.data

\* C17: the response a user receives when the customer, project or task that
\* the request names does not exist is identical to the response received when
\* it exists but belongs to another user (compared on two consecutive
\* responses to the same operation)
C17_DenialUniform ==
    [][(AbsentAndForeign(lastResp, lastResp') \/ AbsentAndForeign(lastResp', lastResp))
          => SameAnswer(lastResp, lastResp')]_vars

\* user 1 was refused at the project of user 2, after an earlier request
C17_Witness ==
    /\ lastResp.op = "updateProject" /\ lastResp.status = 404
    /\ lastResp.unowned = [level |-> "project", kind |-> "foreign"]
    /\ quota < MaxProbeReqs - 1


-----------------------------------------------------------------------------
(* Accounts: registration, login, the administrator's user update and an
   authenticated route, under overlapping requests *)

RegisterBodies ==
    {[email |-> "E3", password |-> "pw3", valid |-> TRUE],
     [email |-> "e3", password |-> "pw3", valid |-> TRUE],
     [email |-> "e3", password |-> "pw3", valid |-> FALSE]}

\* the emails and passwords of the logins
Credentials == {"e2", "e3"} \X {"pw2", "pw3"}

\* the ids of the path of an admin update are the three users in decimal and
\* user 1 in hexadecimal
AuthStart(s) ==
    \/ \E b \in RegisterBodies : RegisterCheck(s, b)
    \/ \E c \in Credentials : Login(s, c[1], c[2])
    \/ \E uid \in hist.tokens :
       \E id \in {<<"1">>, <<"2">>, <<"3">>, <<"0", "x", "1">>} :
       \E b \in {[role |-> "", active |-> "num:0"],
                 [role |-> "", active |-> "num:1"],
                 [role |-> "", active |-> "str:0"],
                 [role |-> "user", active |-> "undefined"],
                 [role |-> "", active |-> "undefined"]} :
          AdminUpdateCheck(s, uid, id, b)
    \/ \E uid \in hist.tokens : authenticateToken(uid) /\ ListCustomers(s, uid, FALSE)

AuthStep(s) ==
    \/ RegisterInsert(s)
    \/ AdminUpdateWrite(s)
    \/ AdminUpdateReread(s)

NextAuth == \E s \in Slots : AuthStart(s) \/ AuthStep(s)

InitAuth == InitStore /\ InitServer(MaxAuthReqs)

SpecAuth == InitAuth /\ [][NextAuth]_vars

\* a user created by registration whose active flag no administrator has set
\* is inactive and holds no token
InactiveUntilSet ==
    \A u \in hist.registered \ hist.adminSet : users[u].active = 0 /\ u \notin hist.tokens

\* the login names an inactive user and has the password of that user
CorrectInactive(email, password) ==
    \E u \in UserByEmail(toLowerCase(email)) :
        comparePassword(password, users[u].password) /\ users[u].active = 0

\* C18: a user created by registration is inactive, and no login of that user
\* returns a token until an administrator has set the user's active flag; a
\* login with correct credentials for an inactive user is answered 403
C18_InactiveUntilActivated ==
    [][/\ InactiveUntilSet'
       /\ \A s \in Slots, c \in Credentials :
             (Login(s, c[1], c[2]) /\ CorrectInactive(c[1], c[2]))
                => (lastResp'.status = 403 /\ hist'.tokens = hist.tokens)]_vars

\* the registered user logged in with its password and was answered 403;
\* no administrator has set an active flag so far
C18_Witness ==
    /\ lastResp.op = "login" /\ lastResp.status = 403
    /\ hist.registered = {3} /\ hist.adminSet = {}
    /\ users[3].active = 0 /\ 3 \notin hist.tokens

\* C19: an authenticated route accepts a request only if its token resolves
\* to a user that is active at the time of the request
C19_OnlyActiveAccepted ==
    [][/\ \A s \in Slots :
             (reqs[s].op = "idle" /\ reqs'[s].op \notin {"idle", "register", "login"})
                => users[reqs'[s].uid].active = 1
       /\ (/\ reqs' = reqs /\ quota' < quota
           /\ lastResp'.op \notin {"register", "login"}
           /\ lastResp'.status = 200)
             => users[lastResp'.uid].active = 1]_vars

\* C20: no step of an admin user-update request issued by an administrator
\* changes the role of that same administrator
C20_OwnAdminRoleKept ==
    [][\A s \in Slots :
          (/\ reqs[s].op = "adminUpdate" /\ reqs'[s] # reqs[s]
           /\ users[reqs[s].uid].role = "admin")
             => users'[reqs[s].uid].role = "admin"]_vars


\* no two users have the same email
UniqueEmails ==
    \A u \in DOMAIN users : \A v \in DOMAIN users :
        users[u].email = users[v].email => u = v

\* C22: a registration with an email that is already registered in lowercase
\* is answered with a Conflict (409, or the handler's 400 "User already exists
\* with this email") and creates no user, so no two users share an email, also
\* when two registrations of the same email overlap
C22_DuplicateEmailConflict ==
    /\ UniqueEmails
    /\ (lastResp.op = "register" /\ lastResp.status # 201 /\ lastResp.data.error # "invalid")
          => \/ lastResp.status = 409
             \/ /\ lastResp.status = 400
                /\ lastResp.data.error = "User already exists with this email"


-----------------------------------------------------------------------------
(* The IBAN columns that router.put('/profile') writes: src/routes/auth.js
   (cipherFields) and src/utils/camel-case.js (encryptValue) *)

\* bankIban.replace(/\s+/g, '').toUpperCase(), over the characters d, E, 1
\* and the space
RECURSIVE normalized(_)
normalized(bankIban) ==
    IF bankIban = <<>> THEN <<>>
    ELSE (IF bankIban[1] \in WhiteSpace THEN <<>>
          ELSE IF bankIban[1] = "d" THEN <<"D">>
          ELSE <<bankIban[1]>>) \o normalized(Tail(bankIban))

\* encryptValue: AES-256-GCM under the key and a random iv; without a key or
\* without a value the value itself comes back, with no iv and no tag
encryptValue(plain, key, iv) ==
    IF key = "" \/ plain = <<>> THEN [cipher |-> plain, iv |-> <<>>, tag |-> <<>>]
    ELSE [cipher |-> <<"aes-256-gcm", key, iv>> \o plain,
          iv |-> <<iv>>,
          tag |-> <<"tag", key, iv>> \o plain]

\* cipherFields: the values of bank_iban_cipher, bank_iban_iv, bank_iban_tag;
\* isEncryptionAvailable() is: a key is configured
cipherFields(bankIban, key, iv) ==
    IF bankIban = <<>> THEN [cipher |-> <<>>, iv |-> <<>>, tag |-> <<>>]
    ELSE IF key # "" THEN encryptValue(normalized(bankIban), key, iv)
    ELSE [cipher |-> bankIban, iv |-> <<>>, tag |-> <<>>]

\* a profile update with a bankIban, on a server with or without ENCRYPTION_KEY
InitIban ==
    /\ InitStore
    /\ reqs = [s \in Slots |-> Idle]
    /\ lastResp = NoResp
    /\ quota = 0
    /\ today = 1
    /\ \E bankIban \in UNION {[1..n -> {"d", "E", "1", " "}] : n \in 0..MaxIbanLen} :
       \E key \in {"", "k1"} : \E iv \in {"iv1", "iv2"} :
          fn = [bankIban |-> bankIban, key |-> key, iv |-> iv, done |-> FALSE,
                stored |-> [cipher |-> <<>>, iv |-> <<>>, tag |-> <<>>]]

ApplyCipherFields ==
    /\ ~fn.done
    /\ fn' = [fn EXCEPT !.done = TRUE, !.stored = cipherFields(fn.bankIban, fn.key, fn.iv)]
    /\ UNCHANGED <<users, customers, projects, tasks, nextId, reqs, lastResp, quota, hist, today>>

SpecIban == InitIban /\ [][ApplyCipherFields]_vars

\* C26: the stored IBAN column never holds the plaintext IBAN, whether or not
\* an encryption key is configured
C26_IbanNotPlainAtRest ==
    (fn.done /\ fn.stored.cipher # <<>>)
        => (/\ fn.stored.cipher \notin {fn.bankIban, normalized(fn.bankIban)}
            /\ fn.stored.iv # <<>> /\ fn.stored.tag # <<>>)


-----------------------------------------------------------------------------
(* Project creations that overlap, without failures of the store *)

RaceStart(s) ==
    \E uid \in UserIds : \E b \in StoreProjectBodies \cup AllocProjectBodies :
        CreateProjectCheck(s, uid, uid, b)

RaceStep(s) ==
    \/ CreateProjectReadUser(s)
    \/ CreateProjectInsert(s)
    \/ CreateProjectReadNext(s)
    \/ CreateProjectUpdateUser(s)

NextRace ==
    \E s \in Slots : RaceStart(s) \/ RaceStep(s)

SpecRace == Init /\ [][NextRace]_vars

\* two projects that user u created without giving a number
AutoPair(u, p, q) ==
    /\ p.id # q.id /\ p.id > 2 /\ q.id > 2
    /\ p.userId = u /\ q.userId = u
    /\ {p.id, q.id} \subseteq hist.auto

\* C28: two project creations of the same user without explicit invoice
\* numbers can overlap so that both projects get the same invoiceNumber and
\* the user's running invoiceNumber advances only once; and whenever the
\* running number has advanced only once over two such creations, the two
\* projects have the same number
C28_OneAdvanceMeansDuplicate ==
    \A u \in UserIds : \A p \in projects : \A q \in projects :
        (/\ AutoPair(u, p, q) /\ Alone(u)
         /\ users[u].invoiceNumber = incrementPattern(Seed00001))
            => (p.invoiceNumber = Seed00001 /\ q.invoiceNumber = Seed00001)

\* both creations of user 1 are answered, both projects have 00001 and the
\* running number is 00002
C28_Witness ==
    /\ AtRest /\ lastResp.op = "createProject" /\ lastResp.status = 200
    /\ \E p \in projects : \E q \in projects :
          /\ AutoPair(1, p, q)
          /\ p.invoiceNumber = Seed00001 /\ q.invoiceNumber = Seed00001
    /\ users[1].invoiceNumber = incrementPattern(Seed00001)

====
